---- MODULE Spec2Model ----
(***************************************************************************)
(* A model of the HashEngine proof-of-work service:                        *)
(*   - validation.rs : the dual difficulty predicate,                      *)
(*   - preimage.rs   : the canonical preimage,                             *)
(*   - bin/server.rs : the request handlers and the process-wide state.    *)
(*                                                                         *)
(* Text is a sequence of one-character strings.  Machine integers wider    *)
(* than 31 bits are sequences of bytes, so that their width is kept: a u32 *)
(* is 4 bytes most significant first (the order of its hex digits), a u64  *)
(* is 8 bytes least significant first (the order of the carry).            *)
(***************************************************************************)
EXTENDS Integers, Sequences, FiniteSets, TLC

VARIABLES
    ROM,               \* server.rs:32  RwLock<Option<Arc<Rom>>>
    TOTAL_HASHES,      \* server.rs:35  AtomicU64
    SOLUTIONS_FOUND,   \* server.rs:36  AtomicU64
    MINING_ACTIVE,     \* server.rs:37  AtomicBool
    STATS_START_TIME,  \* server.rs:38  RwLock<Option<Instant>>
    LAST_RESET_TIME,   \* server.rs:39  RwLock<Option<Instant>>
    CPU_MODE,          \* server.rs:42  RwLock<String>
    GLOBAL_POOL,       \* rayon's global pool: its thread count once built
    num_cpus,          \* num_cpus::get() of the host
    calls,             \* the request each HTTP worker thread is serving
    issued,            \* number of requests accepted so far
    oracle,            \* the digests of the hash function, fixed for a run
    now,               \* the monotonic clock read by Instant::now()
    overflow_checks,   \* build profile: TRUE panics on integer overflow
    hash_hex,          \* input of matches_difficulty under examination
    difficulty_hex,    \* input of matches_difficulty under examination
    result,            \* what the function under examination returned
    validated,         \* whether it has been applied
    applied,           \* the other pure function applied, "none" before
    args,              \* its arguments
    out,               \* what it returned
    vms,               \* the VM of each hash evaluation under examination
    usize_bits,        \* build target: the width of usize, 32 or 64
    spinners,          \* hashengine.rs:500  each spin worker thread
    stop_signal,       \* hashengine.rs:500  Arc<AtomicBool> of the workers
    channel            \* hashengine.rs:500  mpsc channel of Sender<Result>

poolVars == <<GLOBAL_POOL, num_cpus>>
serverVars == <<ROM, TOTAL_HASHES, SOLUTIONS_FOUND, MINING_ACTIVE,
                STATS_START_TIME, LAST_RESET_TIME, CPU_MODE, poolVars, calls,
                issued, oracle, now, overflow_checks>>
spinVars == <<spinners, stop_signal, channel>>
vmVars == <<vms, usize_bits, spinVars>>
pureVars == <<hash_hex, difficulty_hex, result, validated, applied, args, out,
              vmVars>>
vars == <<serverVars, pureVars>>

----------------------------------------------------------------------------
(* Results and options *)

Ok(v) == [ok |-> TRUE, val |-> v]
Err(e) == [ok |-> FALSE, err |-> e]
None == [some |-> FALSE]
Some(v) == [some |-> TRUE, val |-> v]

----------------------------------------------------------------------------
(* Bytes and bits *)

RECURSIVE BitAnd(_, _, _)
BitAnd(a, b, n) ==
    IF n = 0 THEN 0
    ELSE (a % 2) * (b % 2) + 2 * BitAnd(a \div 2, b \div 2, n - 1)

RECURSIVE BitOr(_, _, _)
BitOr(a, b, n) ==
    IF n = 0 THEN 0
    ELSE (IF a % 2 = 1 \/ b % 2 = 1 THEN 1 ELSE 0)
         + 2 * BitOr(a \div 2, b \div 2, n - 1)

\* u8::leading_zeros
RECURSIVE leading_zeros(_)
leading_zeros(byte) ==
    IF byte = 0 THEN 8
    ELSE IF byte >= 128 THEN 0
    ELSE 1 + leading_zeros(byte * 2)

\* The i-th bit (1 = most significant) of a byte sequence.
BitAt(bytes, i) ==
    LET byte == bytes[((i - 1) \div 8) + 1]
        k == 7 - ((i - 1) % 8)
    IN  (byte \div (2 ^ k)) % 2

----------------------------------------------------------------------------
(* Hexadecimal text *)

HexDigits == <<"0", "1", "2", "3", "4", "5", "6", "7",
               "8", "9", "a", "b", "c", "d", "e", "f">>
UpperHexDigits == <<"A", "B", "C", "D", "E", "F">>

\* char::to_digit(16): the value of a hex digit of either case, -1 otherwise.
HexVal(c) ==
    IF \E i \in 1..16 : HexDigits[i] = c
    THEN (CHOOSE i \in 1..16 : HexDigits[i] = c) - 1
    ELSE IF \E i \in 1..6 : UpperHexDigits[i] = c
    THEN (CHOOSE i \in 1..6 : UpperHexDigits[i] = c) + 9
    ELSE -1

\* hex::encode: two lowercase digits per byte, high nibble first.
hex_encode(bytes) ==
    [i \in 1..(2 * Len(bytes)) |->
        LET byte == bytes[(i + 1) \div 2]
        IN  IF i % 2 = 1 THEN HexDigits[(byte \div 16) + 1]
            ELSE HexDigits[(byte % 16) + 1]]

\* hex::decode: OddLength, InvalidHexCharacter, or the bytes.
hex_decode(s) ==
    IF Len(s) % 2 = 1 THEN Err("OddLength")
    ELSE IF \E i \in 1..Len(s) : HexVal(s[i]) < 0 THEN Err("InvalidHexCharacter")
    ELSE Ok([i \in 1..(Len(s) \div 2) |->
                16 * HexVal(s[2 * i - 1]) + HexVal(s[2 * i])])

\* u32::from_str_radix(s, 16) for s of at most 9 characters: an optional
\* leading '+', then at least one and at most 8 hex digits.  The value is
\* returned as its 4 bytes, most significant first.
u32_from_str_radix(s) ==
    LET digits == IF Len(s) > 0 /\ s[1] = "+" THEN Tail(s) ELSE s
        n == Len(digits)
        nib(i) == IF i <= 8 - n THEN 0 ELSE HexVal(digits[i - (8 - n)])
    IN  IF Len(s) = 0 THEN Err("Empty")
        ELSE IF n = 0 \/ \E i \in 1..n : HexVal(digits[i]) < 0
        THEN Err("InvalidDigit")
        ELSE IF n > 8 THEN Err("PosOverflow")
        ELSE Ok([i \in 1..4 |-> 16 * nib(2 * i - 1) + nib(2 * i)])

U32Or(x, y) == [i \in 1..4 |-> BitOr(x[i], y[i], 8)]

----------------------------------------------------------------------------
(* validation.rs *)

RECURSIVE CountZeroBits(_, _)
CountZeroBits(bytes, i) ==
    IF i > Len(bytes) THEN 0
    ELSE IF bytes[i] = 0 THEN 8 + CountZeroBits(bytes, i + 1)
    ELSE leading_zeros(bytes[i])

\* The count without the break: every byte adds its leading zeros.
RECURSIVE CountAllZeroBits(_, _)
CountAllZeroBits(bytes, i) ==
    IF i > Len(bytes) THEN 0
    ELSE (IF bytes[i] = 0 THEN 8 ELSE leading_zeros(bytes[i]))
         + CountAllZeroBits(bytes, i + 1)

difficulty_to_zero_bits_no_break(difficulty) ==
    LET bytes == hex_decode(difficulty)
    IN  IF ~bytes.ok THEN Err("Failed to decode difficulty hex")
        ELSE Ok(CountAllZeroBits(bytes.val, 1))

difficulty_to_zero_bits(difficulty) ==
    LET bytes == hex_decode(difficulty)
    IN  IF ~bytes.ok THEN Err("Failed to decode difficulty hex")
        ELSE Ok(CountZeroBits(bytes.val, 1))

\* The check with the byte that holds the remaining bits required to be 0
\* as a whole.
hash_structure_good_whole_byte(hash_bytes, zero_bits) ==
    LET full_bytes == zero_bits \div 8
        remaining_bits == zero_bits % 8
    IN  IF Len(hash_bytes) < full_bytes THEN FALSE
        ELSE IF \E i \in 1..full_bytes : hash_bytes[i] # 0 THEN FALSE
        ELSE IF remaining_bits = 0 THEN TRUE
        ELSE IF Len(hash_bytes) > full_bytes
        THEN hash_bytes[full_bytes + 1] = 0
        ELSE FALSE

hash_structure_good(hash_bytes, zero_bits) ==
    LET full_bytes == zero_bits \div 8
        remaining_bits == zero_bits % 8
        mask == (255 * (2 ^ (8 - remaining_bits))) % 256
    IN  IF Len(hash_bytes) < full_bytes THEN FALSE
        ELSE IF \E i \in 1..full_bytes : hash_bytes[i] # 0 THEN FALSE
        ELSE IF remaining_bits = 0 THEN TRUE
        ELSE IF Len(hash_bytes) > full_bytes
        THEN BitAnd(hash_bytes[full_bytes + 1], mask, 8) = 0
        ELSE FALSE

\* A plausible slip: the mask-union check is skipped.
matches_difficulty_zero_bits_only(hash, difficulty) ==
    LET hash_bytes == hex_decode(hash)
        required_zero_bits == difficulty_to_zero_bits(difficulty)
    IN  IF Len(hash) < 8 THEN Err("Invalid hash length")
        ELSE IF Len(difficulty) # 8 THEN Err("Invalid difficulty length")
        ELSE IF ~hash_bytes.ok THEN Err("Failed to decode hash hex")
        ELSE IF ~required_zero_bits.ok THEN required_zero_bits
        ELSE Ok(hash_structure_good(hash_bytes.val, required_zero_bits.val))

matches_difficulty(hash, difficulty) ==
    LET hash_bytes == hex_decode(hash)
        hash_prefix_be == u32_from_str_radix(SubSeq(hash, 1, 8))
        mask == u32_from_str_radix(difficulty)
        shadow_harvester_pass == U32Or(hash_prefix_be.val, mask.val) = mask.val
        required_zero_bits == difficulty_to_zero_bits(difficulty)
    IN  IF Len(hash) < 8 THEN Err("Invalid hash length")
        ELSE IF Len(difficulty) # 8 THEN Err("Invalid difficulty length")
        ELSE IF ~hash_bytes.ok THEN Err("Failed to decode hash hex")
        ELSE IF ~hash_prefix_be.ok THEN Err("Failed to parse hash prefix")
        ELSE IF ~mask.ok THEN Err("Failed to parse difficulty mask")
        ELSE IF ~shadow_harvester_pass THEN Ok(FALSE)
        ELSE IF ~required_zero_bits.ok THEN required_zero_bits
        ELSE Ok(hash_structure_good(hash_bytes.val, required_zero_bits.val)
                /\ shadow_harvester_pass)

----------------------------------------------------------------------------
(* u64 arithmetic on 8 bytes, least significant first *)

\* A sequence given as a function of its index, as the tuple of its values.
Strict(f) == <<>> \o f

\* A natural number below 2^31 as a u64.
U64(n) ==
    Strict([i \in 1..8 |-> IF i > 4 THEN 0 ELSE (n \div (256 ^ (i - 1))) % 256])

RECURSIVE AddCarry(_, _, _)
AddCarry(a, b, i) ==
    IF i = 1 THEN 0
    ELSE (a[i - 1] + b[i - 1] + AddCarry(a, b, i - 1)) \div 256

\* a + b: the wrapped sum and whether it overflowed 64 bits.
U64Add(a, b) ==
    [val |-> Strict([i \in 1..8 |-> (a[i] + b[i] + AddCarry(a, b, i)) % 256]),
     overflow |-> AddCarry(a, b, 9) = 1]

RECURSIVE SubBorrow(_, _, _)
SubBorrow(a, b, i) ==
    IF i = 1 THEN 0
    ELSE IF a[i - 1] - b[i - 1] - SubBorrow(a, b, i - 1) < 0 THEN 1 ELSE 0

\* a - b modulo 2^64.
U64WrappingSub(a, b) ==
    Strict([i \in 1..8 |-> (a[i] - b[i] - SubBorrow(a, b, i) + 256) % 256])

RECURSIVE MulColumn(_, _, _, _)
MulColumn(a, b, k, i) ==
    IF i > k THEN 0
    ELSE (IF i <= 8 /\ k + 1 - i <= 8 THEN a[i] * b[k + 1 - i] ELSE 0)
         + MulColumn(a, b, k, i + 1)

RECURSIVE MulCarry(_, _, _)
MulCarry(a, b, k) ==
    IF k = 1 THEN 0
    ELSE (MulColumn(a, b, k - 1, 1) + MulCarry(a, b, k - 1)) \div 256

\* a * b: the wrapped product and whether it overflowed 64 bits.
U64Mul(a, b) ==
    [val |-> Strict([k \in 1..8 |->
                        (MulColumn(a, b, k, 1) + MulCarry(a, b, k)) % 256]),
     overflow |-> \/ MulCarry(a, b, 9) # 0
                  \/ \E k \in 9..15 : MulColumn(a, b, k, 1) # 0]

\* The value of a u64 when it is below 2^31, -1 otherwise.
U64Small(a) ==
    IF a[8] = 0 /\ a[7] = 0 /\ a[6] = 0 /\ a[5] = 0 /\ a[4] < 128
    THEN a[1] + 256 * a[2] + 65536 * a[3] + 16777216 * a[4]
    ELSE -1

Reverse(s) == [i \in 1..Len(s) |-> s[Len(s) + 1 - i]]

\* format!("{:x}", n): the hex digits without the zero padding.
RECURSIVE StripZeros(_)
StripZeros(s) ==
    IF Len(s) > 1 /\ s[1] = "0" THEN StripZeros(Tail(s)) ELSE s

nonce_hex_unpadded(n) == StripZeros(hex_encode(Reverse(n)))

\* format!("{:016x}", n)
nonce_hex_of(n) == hex_encode(Reverse(n))

\* str::parse::<u64>: an optional '+', then decimal digits that fit 64 bits.
RECURSIVE ParseDigits(_, _, _)
ParseDigits(s, i, acc) ==
    IF i > Len(s) THEN Ok(acc)
    ELSE LET d == HexVal(s[i])
             times10 == U64Mul(acc, U64(10))
             plus == U64Add(times10.val, U64(d))
         IN  IF d < 0 \/ d > 9 \/ s[i] \in {"A", "B", "C", "D", "E", "F"}
             THEN Err("InvalidDigit")
             ELSE IF times10.overflow \/ plus.overflow THEN Err("PosOverflow")
             ELSE CHOOSE r \in {ParseDigits(s, i + 1, v) : v \in {plus.val}} : TRUE

parse_u64(s) ==
    LET digits == IF Len(s) > 0 /\ s[1] = "+" THEN Tail(s) ELSE s
    IN  IF Len(s) = 0 THEN Err("Empty")
        ELSE IF Len(digits) = 0 THEN Err("InvalidDigit")
        ELSE ParseDigits(digits, 1, U64(0))

----------------------------------------------------------------------------
(* preimage.rs *)

build_preimage(nonce_hex, address, challenge) ==
    nonce_hex \o address \o challenge.challenge_id \o challenge.difficulty
        \o challenge.no_pre_mine \o challenge.latest_submission
        \o challenge.no_pre_mine_hour

----------------------------------------------------------------------------
(* The process-wide state of bin/server.rs at process start *)

Threads == {"t1", "t2"}
MaxRequests == 3
MaxBatches == 2
MaxCores == 4
DEFAULT_CPU_PERCENTAGE == 90

Idle == [kind |-> "idle", pc |-> "idle"]

GlobalsInit ==
    /\ ROM = None
    /\ TOTAL_HASHES = 0
    /\ SOLUTIONS_FOUND = 0
    /\ MINING_ACTIVE = FALSE
    /\ STATS_START_TIME = None
    /\ LAST_RESET_TIME = None
    /\ CPU_MODE = "normal"
    /\ calls = [t \in Threads |-> Idle]
    /\ issued = 0
    /\ now = 0

\* build_global(): the first call builds the global pool, a later call
\* fails and leaves the pool as it is (the handlers drop the error).
build_global(pool, num_threads) ==
    IF pool.some THEN pool ELSE Some(num_threads)

Max(a, b) == IF a >= b THEN a ELSE b

\* main(): the pool is built before the server starts.
MainInit(cores, cpu_percentage) ==
    /\ num_cpus = cores
    /\ GLOBAL_POOL = build_global(None, Max(1, (cores * cpu_percentage) \div 100))

PureIdle == applied = "none" /\ args = <<>> /\ out = <<>>

\* No spin worker has been spawned: the channel is open and empty.
SpinWorkers == {"s1", "s2"}
NoSpin == [pc |-> "none"]
OpenChannel ==
    [receiver |-> TRUE, found |-> <<>>, progress |-> [w \in SpinWorkers |-> 0]]
SpinIdle ==
    /\ spinners = [w \in SpinWorkers |-> NoSpin]
    /\ stop_signal = FALSE
    /\ channel = OpenChannel

\* No hash evaluation is under examination; the build target is 64-bit.
VMs == {"vm1", "vm2"}
NoVm == [pc |-> "none"]
VmIdle == vms = [v \in VMs |-> NoVm] /\ usize_bits = 64 /\ SpinIdle

ServerInit ==
    /\ GlobalsInit
    /\ MainInit(MaxCores, DEFAULT_CPU_PERCENTAGE)
    /\ PureIdle
    /\ VmIdle

----------------------------------------------------------------------------
(* The hash function and the ROM, as the handlers see them *)

NB_LOOPS == 8
NB_INSTRS == 256
WORKER_WINDOW == 1000000000
BATCH_SIZE == 10000
DIGEST_LEN == 64

Fill(c, n) == [i \in 1..n |-> c]
Range(f) == {f[i] : i \in DOMAIN f}

\* Rom::new(key, TwoStep{pre_size, mixing_numbers}, rom_size): the table is a
\* function of its key and generation parameters, and stands for them here.
RomNew(key, pre_size, mixing_numbers, rom_size) ==
    [key |-> key, pre_size |-> pre_size,
     mixing_numbers |-> mixing_numbers, rom_size |-> rom_size]

\* The digest of every input the oracle does not list.
DefaultDigest == Fill(255, DIGEST_LEN)

\* hashengine::hash(salt, rom, nb_loops, nb_instrs): 64 bytes that depend on
\* the salt and the ROM only.  The digests are those of the run's oracle.
sh_hash(salt, rom, nb_loops, nb_instrs) ==
    IF <<rom, salt>> \in DOMAIN oracle THEN oracle[<<rom, salt>>]
    ELSE DefaultDigest

----------------------------------------------------------------------------
(* bin/server.rs: requests in flight *)

NewCall(kind, req) ==
    [kind |-> kind, pc |-> "entry", req |-> req,
     rom |-> None,            \* the handle cloned at entry
     entry_rom |-> None,      \* what the global slot held at entry
     evals |-> <<>>,          \* hash evaluations, in completion order
     nonce_counter |-> U64(0),
     batches |-> 0,
     found |-> None,
     locals |-> <<>>,         \* other local variables of the handler
     resp |-> None]

NotInitialized ==
    [status |-> 503, error |-> "ROM not initialized. Call /init first."]
BadRequest(msg) == [status |-> 400, error |-> msg]
\* The handler's thread unwound: the caller gets no response body.
Panicked == [status |-> 0, error |-> "panic"]

Finished(c, resp) == [c EXCEPT !.pc = "done", !.resp = Some(resp)]

\* let rom = match ROM.read().unwrap().as_ref() { Some(r) => Arc::clone(r), .. }
WithRom(c, next_pc) ==
    [c EXCEPT !.pc = next_pc, !.rom = ROM, !.entry_rom = ROM]

\* The ROM the handler's closures borrow (&rom): the one bound at entry.
CurrentGlobalRom(t) == ROM.val
HeldRom(t) == calls[t].rom.val

Accept(t) ==
    /\ calls[t].pc = "idle"
    /\ issued < MaxRequests
    /\ issued' = issued + 1

Pending(c, n) == (1..n) \ {e.i : e \in Range(c.evals)}

\* collect() of an indexed parallel iterator: results in input order.
CollectInCompletionOrder(evals, n) == [k \in 1..n |-> evals[k].val]
Collect(evals, n) ==
    [i \in 1..n |-> (CHOOSE e \in Range(evals) : e.i = i).val]

----------------------------------------------------------------------------
(* POST /init *)

\* The request is accepted and Rom::new builds the ROM in a local.
InitBuild(t, req) ==
    /\ Accept(t)
    /\ calls' = [calls EXCEPT ![t] =
          [NewCall("init", req) EXCEPT
              !.pc = "store",
              !.rom = Some(RomNew(req.no_pre_mine, req.ash_config.pre_size,
                                  req.ash_config.mixing_numbers,
                                  req.ash_config.rom_size))]]
    /\ UNCHANGED <<ROM, TOTAL_HASHES, SOLUTIONS_FOUND, MINING_ACTIVE,
                   STATS_START_TIME, LAST_RESET_TIME, CPU_MODE, poolVars, oracle, now,
                   overflow_checks, pureVars>>

\* *ROM.write().unwrap() = Some(rom_arc), then the response.
InitStore(t) ==
    /\ calls[t].kind = "init" /\ calls[t].pc = "store"
    /\ ROM' = calls[t].rom
    /\ calls' = [calls EXCEPT ![t] =
          Finished(@, [status |-> 200, body |-> "initialized"])]
    /\ UNCHANGED <<TOTAL_HASHES, SOLUTIONS_FOUND, MINING_ACTIVE,
                   STATS_START_TIME, LAST_RESET_TIME, CPU_MODE, poolVars, issued,
                   oracle, now, overflow_checks, pureVars>>

----------------------------------------------------------------------------
(* POST /hash *)

HashEntry(t, req) ==
    /\ Accept(t)
    /\ calls' = [calls EXCEPT ![t] =
          IF ROM.some THEN WithRom(NewCall("hash", req), "hash")
          ELSE Finished(NewCall("hash", req), NotInitialized)]
    /\ UNCHANGED <<ROM, TOTAL_HASHES, SOLUTIONS_FOUND, MINING_ACTIVE,
                   STATS_START_TIME, LAST_RESET_TIME, CPU_MODE, poolVars, oracle, now,
                   overflow_checks, pureVars>>

HashEval(t) ==
    /\ calls[t].kind = "hash" /\ calls[t].pc = "hash"
    /\ LET salt == calls[t].req.preimage
           rom == HeldRom(t)
           hash_bytes == sh_hash(salt, rom, NB_LOOPS, NB_INSTRS)
           hash == hex_encode(hash_bytes)
       IN  calls' = [calls EXCEPT ![t] =
             Finished([@ EXCEPT !.evals = Append(@,
                          [i |-> 1, salt |-> salt, rom |-> rom, val |-> hash])],
                      [status |-> 200, hash |-> hash])]
    /\ UNCHANGED <<ROM, TOTAL_HASHES, SOLUTIONS_FOUND, MINING_ACTIVE,
                   STATS_START_TIME, LAST_RESET_TIME, CPU_MODE, poolVars, issued,
                   oracle, now, overflow_checks, pureVars>>

----------------------------------------------------------------------------
(* POST /hash-batch *)

HashBatchEntry(t, req) ==
    /\ Accept(t)
    /\ calls' = [calls EXCEPT ![t] =
          IF ~ROM.some THEN Finished(NewCall("hash_batch", req), NotInitialized)
          ELSE IF Len(req.preimages) = 0
          THEN Finished(WithRom(NewCall("hash_batch", req), "done"),
                        BadRequest("preimages array is required"))
          ELSE WithRom(NewCall("hash_batch", req), "map")]
    /\ UNCHANGED <<ROM, TOTAL_HASHES, SOLUTIONS_FOUND, MINING_ACTIVE,
                   STATS_START_TIME, LAST_RESET_TIME, CPU_MODE, poolVars, oracle, now,
                   overflow_checks, pureVars>>

\* One item of par_iter().map(..): any item not yet hashed may come next.
\* When the last one is in, collect() and the response follow.
HashBatchEval(t, i) ==
    /\ calls[t].kind = "hash_batch" /\ calls[t].pc = "map"
    /\ i \in Pending(calls[t], Len(calls[t].req.preimages))
    /\ LET n == Len(calls[t].req.preimages)
           salt == calls[t].req.preimages[i]
           rom == HeldRom(t)
           hash_bytes == sh_hash(salt, rom, NB_LOOPS, NB_INSTRS)
           evals == Append(calls[t].evals,
                       [i |-> i, salt |-> salt, rom |-> rom,
                        val |-> hex_encode(hash_bytes)])
       IN  calls' = [calls EXCEPT ![t] =
             IF Len(evals) = n
             THEN Finished([@ EXCEPT !.evals = evals],
                           [status |-> 200, hashes |-> Collect(evals, n)])
             ELSE [@ EXCEPT !.evals = evals]]
    /\ UNCHANGED <<ROM, TOTAL_HASHES, SOLUTIONS_FOUND, MINING_ACTIVE,
                   STATS_START_TIME, LAST_RESET_TIME, CPU_MODE, poolVars, issued,
                   oracle, now, overflow_checks, pureVars>>

----------------------------------------------------------------------------
(* The closure of /mine and /start-mining: hash one nonce, keep it if it    *)
(* meets the difficulty; an error of the predicate is "no match".           *)

\* The closure with the error arm of the match taken for a solution.
TryNonceErrorAsMatch(nonce_num, rom, req) ==
    LET nonce == nonce_hex_of(nonce_num)
        preimage == build_preimage(nonce, req.address, req.challenge)
        hash_bytes == sh_hash(preimage, rom, NB_LOOPS, NB_INSTRS)
        hash == hex_encode(hash_bytes)
        verdict == matches_difficulty(hash, req.challenge.difficulty)
    IN  IF ~verdict.ok \/ verdict.val
        THEN Some([nonce |-> nonce, hash |-> hash, preimage |-> preimage])
        ELSE None

TryNonce(nonce_num, rom, req) ==
    LET nonce == nonce_hex_of(nonce_num)
        preimage == build_preimage(nonce, req.address, req.challenge)
        hash_bytes == sh_hash(preimage, rom, NB_LOOPS, NB_INSTRS)
        hash == hex_encode(hash_bytes)
        verdict == matches_difficulty(hash, req.challenge.difficulty)
    IN  IF verdict.ok /\ verdict.val
        THEN Some([nonce |-> nonce, hash |-> hash, preimage |-> preimage])
        ELSE None

\* The elements of a sequence of options that are Some, in order.
RECURSIVE Somes(_)
Somes(seq) ==
    IF Len(seq) = 0 THEN <<>>
    ELSE IF Head(seq).some THEN <<Head(seq).val>> \o Somes(Tail(seq))
    ELSE Somes(Tail(seq))

----------------------------------------------------------------------------
(* POST /mine *)

\* Entry, nonce_start parsing and the batch of nonces (all local work).
MineEntry(t, req) ==
    /\ Accept(t)
    /\ \E nonce_start \in {parse_u64(req.nonce_start)} :
       LET c == NewCall("mine", req)
           overflows == \E i \in 0..(req.batch_size - 1) :
                           U64Add(nonce_start.val, U64(i)).overflow
       IN  calls' = [calls EXCEPT ![t] =
             IF ~ROM.some THEN Finished(c, NotInitialized)
             ELSE IF ~nonce_start.ok
             THEN Finished(WithRom(c, "done"), BadRequest("Invalid nonce_start"))
             ELSE IF overflows /\ overflow_checks
             THEN Finished(WithRom(c, "done"), Panicked)
             ELSE IF req.batch_size = 0
             THEN Finished(WithRom(c, "done"),
                           [status |-> 200, solutions |-> <<>>,
                            hashes_computed |-> req.batch_size])
             ELSE [WithRom(c, "map") EXCEPT !.nonce_counter = nonce_start.val]]
    /\ UNCHANGED <<ROM, TOTAL_HASHES, SOLUTIONS_FOUND, MINING_ACTIVE,
                   STATS_START_TIME, LAST_RESET_TIME, CPU_MODE, poolVars, oracle, now,
                   overflow_checks, pureVars>>

\* One item of par_iter().filter_map(..); after the last, collect() and the
\* response.
MineEval(t, i) ==
    /\ calls[t].kind = "mine" /\ calls[t].pc = "map"
    /\ i \in Pending(calls[t], calls[t].req.batch_size)
    /\ LET req == calls[t].req
           n == req.batch_size
           rom == HeldRom(t)
           nonce_num == U64Add(calls[t].nonce_counter, U64(i - 1)).val
           evals == Append(calls[t].evals,
                       [i |-> i, salt |-> nonce_num, rom |-> rom,
                        val |-> TryNonce(nonce_num, rom, req)])
       IN  calls' = [calls EXCEPT ![t] =
             IF Len(evals) = n
             THEN Finished([@ EXCEPT !.evals = evals],
                           [status |-> 200,
                            solutions |-> Somes(Collect(evals, n)),
                            hashes_computed |-> req.batch_size])
             ELSE [@ EXCEPT !.evals = evals]]
    /\ UNCHANGED <<ROM, TOTAL_HASHES, SOLUTIONS_FOUND, MINING_ACTIVE,
                   STATS_START_TIME, LAST_RESET_TIME, CPU_MODE, poolVars, issued,
                   oracle, now, overflow_checks, pureVars>>

----------------------------------------------------------------------------
(* POST /start-mining *)

\* The entry without its ROM check.
StartMiningEntryUnchecked(t, req) ==
    /\ Accept(t)
    /\ calls' = [calls EXCEPT ![t] = WithRom(NewCall("start_mining", req), "stats")]
    /\ UNCHANGED <<ROM, TOTAL_HASHES, SOLUTIONS_FOUND, MINING_ACTIVE,
                   STATS_START_TIME, LAST_RESET_TIME, CPU_MODE, poolVars, oracle, now,
                   overflow_checks, pureVars>>

StartMiningEntry(t, req) ==
    /\ Accept(t)
    /\ calls' = [calls EXCEPT ![t] =
          IF ROM.some THEN WithRom(NewCall("start_mining", req), "stats")
          ELSE Finished(NewCall("start_mining", req), NotInitialized)]
    /\ UNCHANGED <<ROM, TOTAL_HASHES, SOLUTIONS_FOUND, MINING_ACTIVE,
                   STATS_START_TIME, LAST_RESET_TIME, CPU_MODE, poolVars, oracle, now,
                   overflow_checks, pureVars>>

\* if stats_lock.is_none() { *stats_lock = Some(Instant::now()) }
StartMiningStats(t) ==
    /\ calls[t].kind = "start_mining" /\ calls[t].pc = "stats"
    /\ STATS_START_TIME' =
          IF STATS_START_TIME.some THEN STATS_START_TIME ELSE Some(now)
    /\ calls' = [calls EXCEPT ![t].pc = "active"]
    /\ UNCHANGED <<ROM, TOTAL_HASHES, SOLUTIONS_FOUND, MINING_ACTIVE,
                   LAST_RESET_TIME, CPU_MODE, poolVars, issued, oracle, now,
                   overflow_checks, pureVars>>

\* MINING_ACTIVE.store(true), then nonce_counter = worker_id * 1_000_000_000.
StartMiningActive(t) ==
    /\ calls[t].kind = "start_mining" /\ calls[t].pc = "active"
    /\ MINING_ACTIVE' = TRUE
    /\ LET base == U64Mul(calls[t].req.worker_id, U64(WORKER_WINDOW))
       IN  calls' = [calls EXCEPT ![t] =
             IF base.overflow /\ overflow_checks THEN Finished(@, Panicked)
             ELSE [@ EXCEPT !.pc = "loop", !.nonce_counter = base.val]]
    /\ UNCHANGED <<ROM, TOTAL_HASHES, SOLUTIONS_FOUND, STATS_START_TIME,
                   LAST_RESET_TIME, CPU_MODE, poolVars, issued, oracle, now,
                   overflow_checks, pureVars>>

\* The nonce of an oracle input that is a preimage of this request, as a set
\* of at most one u64.
NonceOfSalt(salt, req) ==
    LET suffix == build_preimage(<<>>, req.address, req.challenge)
        bytes == hex_decode(SubSeq(salt, 1, 16))
    IN  IF /\ Len(salt) = 16 + Len(suffix)
           /\ SubSeq(salt, 17, Len(salt)) = suffix
           /\ bytes.ok
           /\ hex_encode(bytes.val) = SubSeq(salt, 1, 16)
        THEN {Reverse(bytes.val)}
        ELSE {}

\* The nonces nonce_counter + i, 0 <= i < BATCH_SIZE, whose digest the oracle
\* lists for this ROM.
ListedNonces(rom, req, nonce_counter) ==
    {n \in UNION {NonceOfSalt(pt[2], req) : pt \in {q \in DOMAIN oracle : q[1] = rom}} :
        LET offset == U64Small(U64WrappingSub(n, nonce_counter))
        IN  offset >= 0 /\ offset < BATCH_SIZE}

\* The batch with every listed nonce taken for a solution.
BatchSolutionsUnfiltered(rom, req, nonce_counter) ==
    {LET nonce == nonce_hex_of(n)
         preimage == build_preimage(nonce, req.address, req.challenge)
     IN  Some([nonce |-> nonce,
               hash |-> hex_encode(sh_hash(preimage, rom, NB_LOOPS, NB_INSTRS)),
               preimage |-> preimage]) :
        n \in ListedNonces(rom, req, nonce_counter)}

\* What the closure returns Some for over the batch.  Every nonce the oracle
\* does not list has the default digest, so all of them match or none does.
BatchSolutions(rom, req, nonce_counter) ==
    LET default == matches_difficulty(hex_encode(DefaultDigest),
                                      req.challenge.difficulty)
        nonces == IF default.ok /\ default.val
                  THEN {U64Add(nonce_counter, U64(i)).val : i \in 0..(BATCH_SIZE - 1)}
                  ELSE ListedNonces(rom, req, nonce_counter)
    IN  {TryNonce(n, rom, req) : n \in nonces} \ {None}

\* One turn of the loop that counts its batch only when it held no match.
StartMiningBatch_unmatched_only(t) ==
    /\ calls[t].kind = "start_mining" /\ calls[t].pc = "loop"
    /\ calls[t].batches < MaxBatches
    /\ LET c == calls[t]
           rom == HeldRom(t)
           last == U64Add(c.nonce_counter, U64(BATCH_SIZE - 1))
           next == U64Add(c.nonce_counter, U64(BATCH_SIZE))
           solutions == BatchSolutions(rom, c.req, c.nonce_counter)
       IN  IF (last.overflow \/ next.overflow) /\ overflow_checks
           THEN /\ calls' = [calls EXCEPT ![t] = Finished(@, Panicked)]
                /\ UNCHANGED TOTAL_HASHES
           ELSE \E found_solution \in
                        IF solutions = {} THEN {None} ELSE solutions :
                   /\ calls' = [calls EXCEPT ![t] =
                        [@ EXCEPT
                            !.pc = IF found_solution.some THEN "found" ELSE "loop",
                            !.nonce_counter = next.val,
                            !.batches = @ + 1,
                            !.found = found_solution,
                            !.evals = Append(@,
                                [i |-> c.batches + 1, salt |-> c.nonce_counter,
                                 rom |-> rom, val |-> found_solution])]]
                   /\ TOTAL_HASHES' = IF found_solution.some THEN TOTAL_HASHES
                                      ELSE TOTAL_HASHES + BATCH_SIZE
    /\ UNCHANGED <<ROM, SOLUTIONS_FOUND, MINING_ACTIVE, STATS_START_TIME,
                   LAST_RESET_TIME, CPU_MODE, poolVars, issued, oracle, now,
                   overflow_checks, pureVars>>

\* One turn of the loop: the batch, nonce_counter += BATCH_SIZE,
\* find_map_any over the pool, TOTAL_HASHES.fetch_add(BATCH_SIZE).
StartMiningBatch(t) ==
    /\ calls[t].kind = "start_mining" /\ calls[t].pc = "loop"
    /\ calls[t].batches < MaxBatches
    /\ LET c == calls[t]
           rom == HeldRom(t)
           last == U64Add(c.nonce_counter, U64(BATCH_SIZE - 1))
           next == U64Add(c.nonce_counter, U64(BATCH_SIZE))
           solutions == BatchSolutions(rom, c.req, c.nonce_counter)
       IN  IF (last.overflow \/ next.overflow) /\ overflow_checks
           THEN /\ calls' = [calls EXCEPT ![t] = Finished(@, Panicked)]
                /\ UNCHANGED TOTAL_HASHES
           ELSE /\ \E found_solution \in
                        IF solutions = {} THEN {None} ELSE solutions :
                      calls' = [calls EXCEPT ![t] =
                        [@ EXCEPT
                            !.pc = IF found_solution.some THEN "found" ELSE "loop",
                            !.nonce_counter = next.val,
                            !.batches = @ + 1,
                            !.found = found_solution,
                            !.evals = Append(@,
                                [i |-> c.batches + 1, salt |-> c.nonce_counter,
                                 rom |-> rom, val |-> found_solution])]]
                /\ TOTAL_HASHES' = TOTAL_HASHES + BATCH_SIZE
    /\ UNCHANGED <<ROM, SOLUTIONS_FOUND, MINING_ACTIVE, STATS_START_TIME,
                   LAST_RESET_TIME, CPU_MODE, poolVars, issued, oracle, now,
                   overflow_checks, pureVars>>

\* The return with MINING_ACTIVE stored back to false.
StartMiningReturn_inactive(t) ==
    /\ calls[t].kind = "start_mining" /\ calls[t].pc = "found"
    /\ SOLUTIONS_FOUND' = SOLUTIONS_FOUND + 1
    /\ MINING_ACTIVE' = FALSE
    /\ calls' = [calls EXCEPT ![t] =
          Finished(@, [status |-> 200,
                       solutions |-> <<calls[t].found.val>>,
                       hashes_computed |-> calls[t].nonce_counter])]
    /\ UNCHANGED <<ROM, TOTAL_HASHES, STATS_START_TIME,
                   LAST_RESET_TIME, CPU_MODE, poolVars, issued, oracle, now,
                   overflow_checks, pureVars>>

\* SOLUTIONS_FOUND.fetch_add(1) and the response.
StartMiningReturn(t) ==
    /\ calls[t].kind = "start_mining" /\ calls[t].pc = "found"
    /\ SOLUTIONS_FOUND' = SOLUTIONS_FOUND + 1
    /\ calls' = [calls EXCEPT ![t] =
          Finished(@, [status |-> 200,
                       solutions |-> <<calls[t].found.val>>,
                       hashes_computed |-> calls[t].nonce_counter])]
    /\ UNCHANGED <<ROM, TOTAL_HASHES, MINING_ACTIVE, STATS_START_TIME,
                   LAST_RESET_TIME, CPU_MODE, poolVars, issued, oracle, now,
                   overflow_checks, pureVars>>

----------------------------------------------------------------------------
(* GET /stats *)

RESET_SECONDS == 3600

\* The handler holds the write lock on LAST_RESET_TIME from its first line
\* to drop(reset_lock).
StatsLockHeld ==
    \E t \in Threads :
        /\ calls[t].kind = "stats"
        /\ calls[t].pc \in {"load_total", "rate"}

\* The reset taken at every call.
should_reset_always(last_reset, instant) == TRUE

\* The reset taken only when more than 3600 s have passed.
should_reset_after(last_reset, instant) ==
    IF last_reset.some THEN instant - last_reset.val > RESET_SECONDS ELSE TRUE

\* if let Some(last_reset) = *reset_lock { elapsed >= 3600 s } else { true }
should_reset(last_reset, instant) ==
    IF last_reset.some THEN instant - last_reset.val >= RESET_SECONDS ELSE TRUE

\* The lock, Instant::now(), and the reset when it is due.
StatsReset(t) ==
    /\ calls[t].pc = "idle"
    /\ ~StatsLockHeld
    /\ LET reset == should_reset(LAST_RESET_TIME, now)
       IN  /\ TOTAL_HASHES' = IF reset THEN 0 ELSE TOTAL_HASHES
           /\ LAST_RESET_TIME' = IF reset THEN Some(now) ELSE LAST_RESET_TIME
           /\ calls' = [calls EXCEPT ![t] =
                 [NewCall("stats", <<>>) EXCEPT
                     !.pc = "load_total", !.locals = [reset |-> reset]]]
    /\ UNCHANGED <<ROM, SOLUTIONS_FOUND, MINING_ACTIVE, STATS_START_TIME,
                   CPU_MODE, poolVars, issued, oracle, now, overflow_checks,
                   pureVars>>

\* let total_hashes = TOTAL_HASHES.load(Ordering::Relaxed);
StatsLoadTotal(t) ==
    /\ calls[t].kind = "stats" /\ calls[t].pc = "load_total"
    /\ calls' = [calls EXCEPT ![t] =
          [@ EXCEPT !.pc = "rate",
                    !.locals = [reset |-> @.reset,
                                total_hashes |-> TOTAL_HASHES]]]
    /\ UNCHANGED <<ROM, TOTAL_HASHES, SOLUTIONS_FOUND, MINING_ACTIVE,
                   STATS_START_TIME, LAST_RESET_TIME, CPU_MODE, poolVars,
                   issued, oracle, now, overflow_checks, pureVars>>

\* The other two loads, hash_rate, drop(reset_lock), uptime_seconds,
\* cpu_mode and the response.
StatsRespond(t) ==
    /\ calls[t].kind = "stats" /\ calls[t].pc = "rate"
    /\ LET total_hashes == calls[t].locals.total_hashes
           elapsed == now - LAST_RESET_TIME.val
           hash_rate == IF LAST_RESET_TIME.some /\ elapsed > 0
                        THEN total_hashes \div elapsed ELSE 0
           uptime_seconds == IF STATS_START_TIME.some
                             THEN now - STATS_START_TIME.val ELSE 0
       IN  calls' = [calls EXCEPT ![t] =
              Finished(@, [status |-> 200,
                           total_hashes |-> total_hashes,
                           solutions_found |-> SOLUTIONS_FOUND,
                           hash_rate |-> hash_rate,
                           uptime_seconds |-> uptime_seconds,
                           mining_active |-> MINING_ACTIVE,
                           cpu_mode |-> CPU_MODE])]
    /\ UNCHANGED <<ROM, TOTAL_HASHES, SOLUTIONS_FOUND, MINING_ACTIVE,
                   STATS_START_TIME, LAST_RESET_TIME, CPU_MODE, poolVars,
                   issued, oracle, now, overflow_checks, pureVars>>

----------------------------------------------------------------------------
(* The clock *)

MaxInstants == 3
InstantSeq == <<0, RESET_SECONDS, RESET_SECONDS + 1, RESET_SECONDS - 1,
                2 * RESET_SECONDS, 2 * RESET_SECONDS + 1>>
Instants == {InstantSeq[i] : i \in 1..MaxInstants}

\* Time passes to a later instant at which the clock is read.
Tick ==
    /\ \E n \in Instants : n > now /\ now' = n
    /\ UNCHANGED <<ROM, TOTAL_HASHES, SOLUTIONS_FOUND, MINING_ACTIVE,
                   STATS_START_TIME, LAST_RESET_TIME, CPU_MODE, poolVars,
                   calls, issued, oracle, overflow_checks, pureVars>>

----------------------------------------------------------------------------
(* The response has been sent: the worker thread takes the next request. *)

Recycle(t) ==
    /\ calls[t].pc = "done"
    /\ calls' = [calls EXCEPT ![t] = Idle]
    /\ UNCHANGED <<ROM, TOTAL_HASHES, SOLUTIONS_FOUND, MINING_ACTIVE,
                   STATS_START_TIME, LAST_RESET_TIME, CPU_MODE, poolVars, issued,
                   oracle, now, overflow_checks, pureVars>>

----------------------------------------------------------------------------
(* Requests and oracles the service is driven with *)

KeyA == <<"a">>
KeyB == <<"b">>
AshConfig ==
    [nb_loops |-> 8, nb_instrs |-> 256, pre_size |-> 1024,
     rom_size |-> 65536, mixing_numbers |-> 4]
RomOf(key) ==
    RomNew(key, AshConfig.pre_size, AshConfig.mixing_numbers, AshConfig.rom_size)

Address == <<"w">>
Mask12 == <<"0", "0", "0", "f", "f", "f", "f", "f">>
Challenge(no_pre_mine, difficulty) ==
    [challenge_id |-> <<"*", "1">>, difficulty |-> difficulty,
     no_pre_mine |-> no_pre_mine, latest_submission |-> <<"s">>,
     no_pre_mine_hour |-> <<"h">>]

P1 == <<"p">>
P2 == <<"q">>

\* A digest: four leading bytes, then one byte repeated.
Digest(head, tag) == head \o Fill(tag, DIGEST_LEN - 4)
\* A digest that meets Mask12, and one that does not.
LowDigest(tag) == Digest(<<0, 15, tag, 255>>, tag)
HighDigest(tag) == Digest(<<0, 16, tag, 0>>, tag)

MinePoint(key, n, challenge) ==
    <<RomOf(key), build_preimage(nonce_hex_of(U64(n)), Address, challenge)>>

\* The oracle that lists the given [pt, digest] entries.
OracleOf(entries) ==
    [pt \in {e.pt : e \in entries} |->
        (CHOOSE e \in entries : e.pt = pt).digest]

\* Digests of the preimages sent to /hash and /hash-batch: all different.
HashEntries ==
    {[pt |-> <<RomOf(KeyA), P1>>, digest |-> HighDigest(1)],
     [pt |-> <<RomOf(KeyA), P2>>, digest |-> HighDigest(2)],
     [pt |-> <<RomOf(KeyB), P1>>, digest |-> HighDigest(3)],
     [pt |-> <<RomOf(KeyB), P2>>, digest |-> LowDigest(4)]}

\* The nonces that meet the difficulty: hot is a set of <<key, nonce>>.
MineEntries(hot, challenge) ==
    {[pt |-> MinePoint(h[1], h[2], challenge),
      digest |-> LowDigest(16 + (h[2] % 16))] : h \in hot}

InitRequests ==
    {[no_pre_mine |-> k, ash_config |-> AshConfig] : k \in {KeyA, KeyB}}

----------------------------------------------------------------------------
(* The service under interleaved requests of every kind *)

HotSets == {{<<KeyA, 1>>, <<KeyB, 0>>}, {<<KeyA, 10000>>, <<KeyB, 1>>}}

MineRequest ==
    [worker_id |-> U64(0), address |-> Address,
     challenge |-> Challenge(KeyA, Mask12), batch_size |-> 2,
     nonce_start |-> <<"0">>]
StartMiningRequest ==
    [worker_id |-> U64(0), address |-> Address,
     challenge |-> Challenge(KeyA, Mask12)]

Init ==
    /\ ServerInit
    /\ oracle \in {OracleOf(HashEntries \cup MineEntries(hot, Challenge(KeyA, Mask12))) :
                      hot \in HotSets}
    /\ overflow_checks = FALSE
    /\ hash_hex = <<>> /\ difficulty_hex = <<>>
    /\ result = Err("not applied") /\ validated = FALSE

Next ==
    \E t \in Threads :
        \/ \E req \in InitRequests : InitBuild(t, req)
        \/ InitStore(t)
        \/ HashEntry(t, [preimage |-> P1])
        \/ HashEval(t)
        \/ HashBatchEntry(t, [preimages |-> <<P1, P2>>])
        \/ \E i \in 1..2 : HashBatchEval(t, i)
        \/ MineEntry(t, MineRequest)
        \/ \E i \in 1..2 : MineEval(t, i)
        \/ StartMiningEntry(t, StartMiningRequest)
        \/ StartMiningStats(t)
        \/ StartMiningActive(t)
        \/ StartMiningBatch(t)
        \/ StartMiningReturn(t)
        \/ Recycle(t)

Spec == Init /\ [][Next]_vars

Readers == {"hash", "hash_batch", "mine", "start_mining"}

\* The ROMs that Rom::new can have returned to an init call.
BuiltRoms == {RomOf(req.no_pre_mine) : req \in InitRequests}

\* C2: each hash, hash_batch, mine and start_mining call evaluates every one
\* of its hashes on the ROM that the global slot held when the call entered,
\* whatever init calls replace the slot meanwhile; and the slot holds nothing
\* or one ROM that Rom::new built completely.
C2_RomHandleStable ==
    /\ ROM.some => ROM.val \in BuiltRoms
    /\ \A t \in Threads :
          calls[t].kind \in Readers =>
             \A e \in Range(calls[t].evals) :
                calls[t].entry_rom.some /\ e.rom = calls[t].entry_rom.val

\* A call hashed on its ROM after an init had put another ROM in the slot.
C2_Witness ==
    \E t \in Threads :
        /\ calls[t].kind \in Readers
        /\ Len(calls[t].evals) > 0
        /\ ROM.some /\ calls[t].entry_rom.some
        /\ ROM.val # calls[t].entry_rom.val
        /\ calls[t].evals[Len(calls[t].evals)].rom = calls[t].entry_rom.val

\* C3: every solution that mine or start_mining returns has its hash computed
\* over the preimage built from the request's challenge, on a ROM built from
\* the no_pre_mine of that same challenge.
C3_SolutionSelfConsistent ==
    \A t \in Threads :
        (/\ calls[t].kind \in {"mine", "start_mining"}
         /\ calls[t].pc = "done"
         /\ calls[t].resp.val.status = 200) =>
            \A k \in 1..Len(calls[t].resp.val.solutions) :
                LET sol == calls[t].resp.val.solutions[k]
                    req == calls[t].req
                IN  /\ sol.preimage =
                          build_preimage(sol.nonce, req.address, req.challenge)
                    /\ \E e \in Range(calls[t].evals) :
                          /\ e.val = Some(sol)
                          /\ sol.hash = hex_encode(sh_hash(sol.preimage, e.rom,
                                                           NB_LOOPS, NB_INSTRS))
                          /\ e.rom.key = req.challenge.no_pre_mine

\* C9: a hash, hash_batch, mine or start_mining call that finds no ROM ends at
\* once with the not-initialized error, has computed no hash, and leaves
\* total_hashes, solutions_found, mining_active and the stats start time as
\* they were.
C9_NotInitialized ==
    [][\A t \in Threads :
          (/\ ~ROM.some
           /\ calls[t].pc = "idle"
           /\ calls'[t].pc # "idle"
           /\ calls'[t].kind \in Readers) =>
              /\ calls'[t].pc = "done"
              /\ calls'[t].resp = Some(NotInitialized)
              /\ calls'[t].evals = <<>>
              /\ UNCHANGED <<ROM, TOTAL_HASHES, SOLUTIONS_FOUND,
                             MINING_ACTIVE, STATS_START_TIME>>]_vars

\* One call was refused for want of a ROM, and after an init the same call
\* succeeded while the process kept its state.
C9_Witness ==
    \E t1, t2 \in Threads :
        /\ calls[t1].pc = "done" /\ calls[t1].kind \in Readers
        /\ calls[t1].resp = Some(NotInitialized)
        /\ calls[t1].evals = <<>>
        /\ calls[t2].pc = "done" /\ calls[t2].kind = calls[t1].kind
        /\ calls[t2].req = calls[t1].req
        /\ calls[t2].resp.val.status = 200
        /\ ~MINING_ACTIVE /\ TOTAL_HASHES = 0 /\ SOLUTIONS_FOUND = 0

----------------------------------------------------------------------------
(* /hash and /hash-batch under every list of preimages up to a length *)

MaxPreimages == 2

RECURSIVE ListsUpTo(_, _)
ListsUpTo(S, n) ==
    IF n = 0 THEN {<<>>}
    ELSE LET shorter == ListsUpTo(S, n - 1)
         IN  shorter \cup {Append(l, x) : l \in shorter, x \in S}

HashRequests == {[preimage |-> p] : p \in {<<>>, P1, P2}}
HashBatchRequests ==
    {[preimages |-> l] : l \in ListsUpTo({P1, P2}, MaxPreimages)}

InitHash ==
    /\ ServerInit
    /\ oracle = OracleOf(HashEntries)
    /\ overflow_checks = FALSE
    /\ hash_hex = <<>> /\ difficulty_hex = <<>>
    /\ result = Err("not applied") /\ validated = FALSE

NextHash ==
    \E t \in Threads :
        \/ \E req \in InitRequests : InitBuild(t, req)
        \/ InitStore(t)
        \/ \E req \in HashRequests : HashEntry(t, req)
        \/ HashEval(t)
        \/ \E req \in HashBatchRequests : HashBatchEntry(t, req)
        \/ \E i \in 1..MaxPreimages : HashBatchEval(t, i)
        \/ Recycle(t)

SpecHash == InitHash /\ [][NextHash]_vars

\* C8: a hash_batch over p1..pn answers n hashes, the i-th being the hash of
\* pi on the ROM the call took at entry, which is also what a hash call on pi
\* alone answers on that ROM, in whatever order the pool finished the items.
C8_BatchEqualsSingle ==
    \A t \in Threads :
        (/\ calls[t].kind = "hash_batch"
         /\ calls[t].pc = "done"
         /\ calls[t].resp.val.status = 200) =>
            LET preimages == calls[t].req.preimages
                hashes == calls[t].resp.val.hashes
            IN  /\ Len(hashes) = Len(preimages)
                /\ \A i \in 1..Len(preimages) :
                      /\ hashes[i] =
                            hex_encode(sh_hash(preimages[i],
                                               calls[t].entry_rom.val,
                                               NB_LOOPS, NB_INSTRS))
                      /\ \A u \in Threads :
                            (/\ calls[u].kind = "hash"
                             /\ calls[u].pc = "done"
                             /\ calls[u].resp.val.status = 200
                             /\ calls[u].entry_rom = calls[t].entry_rom
                             /\ calls[u].req.preimage = preimages[i]) =>
                                calls[u].resp.val.hash = hashes[i]

\* A batch of two preimages with different hashes whose second item finished
\* first, next to a hash call on that second preimage on the same ROM.
C8_Witness ==
    \E t, u \in Threads :
        /\ calls[t].kind = "hash_batch" /\ calls[t].pc = "done"
        /\ calls[t].resp.val.status = 200
        /\ Len(calls[t].req.preimages) = 2
        /\ calls[t].evals[1].i = 2
        /\ calls[t].resp.val.hashes[1] # calls[t].resp.val.hashes[2]
        /\ calls[u].kind = "hash" /\ calls[u].pc = "done"
        /\ calls[u].resp.val.status = 200
        /\ calls[u].entry_rom = calls[t].entry_rom
        /\ calls[u].req.preimage = calls[t].req.preimages[2]

\* C10: a hash call with an empty preimage and a hash_batch call with an
\* empty list are both refused with an error, and neither computes a hash.
C10_EmptyInputRejected ==
    \A t \in Threads :
        (/\ calls[t].pc = "done"
         /\ \/ calls[t].kind = "hash" /\ calls[t].req.preimage = <<>>
            \/ calls[t].kind = "hash_batch" /\ calls[t].req.preimages = <<>>) =>
            /\ calls[t].resp.val.status # 200
            /\ calls[t].evals = <<>>

----------------------------------------------------------------------------
(* /mine over several ranges of nonces, in both build profiles *)

MaxBatchSize == 2
U64Max == <<"1","8","4","4","6","7","4","4","0","7","3","7","0","9","5","5",
            "1","6","1","5">>
NonceStarts == {<<"0">>, <<"x">>, U64Max}

MineRequests ==
    {[worker_id |-> U64(0), address |-> Address,
      challenge |-> Challenge(KeyA, Mask12), batch_size |-> b,
      nonce_start |-> s] : b \in 0..MaxBatchSize, s \in NonceStarts}

MineHotSets == {{<<KeyA, 0>>, <<KeyA, 1>>}, {<<KeyA, 1>>, <<KeyA, 10>>}}

InitMine ==
    /\ ServerInit
    /\ oracle \in {OracleOf(MineEntries(hot, Challenge(KeyA, Mask12))) :
                      hot \in MineHotSets}
    /\ overflow_checks \in BOOLEAN
    /\ hash_hex = <<>> /\ difficulty_hex = <<>>
    /\ result = Err("not applied") /\ validated = FALSE

NextMine ==
    \E t \in Threads :
        \/ \E req \in InitRequests : InitBuild(t, req)
        \/ InitStore(t)
        \/ \E req \in MineRequests : MineEntry(t, req)
        \/ \E i \in 1..MaxBatchSize : MineEval(t, i)
        \/ Recycle(t)

SpecMine == InitMine /\ [][NextMine]_vars

----------------------------------------------------------------------------
(* The difficulty predicate applied to bounded inputs *)

MaskVary == 3
HashVary == 2
MaskNibbles == {"0", "3", "7", "f"}
HashNibbles == {"0", "1", "8", "f"}

\* 8-character masks: MaskVary leading digits vary, the rest is 0s or fs.
DifficultyInputs ==
    {head \o Fill(f, 8 - MaskVary) :
        head \in [1..MaskVary -> MaskNibbles], f \in {"0", "f"}}

\* Hex of 64-byte digests: HashVary leading digits vary, the rest is 0s or fs.
DigestHexInputs ==
    {head \o Fill(f, 2 * DIGEST_LEN - HashVary) :
        head \in [1..HashVary -> HashNibbles], f \in {"0", "f"}}

InitDifficulty ==
    /\ ServerInit
    /\ oracle = <<>>
    /\ overflow_checks = FALSE
    /\ hash_hex \in DigestHexInputs
    /\ difficulty_hex \in DifficultyInputs
    /\ result = Err("not applied")
    /\ validated = FALSE

Validate ==
    /\ ~validated
    /\ result' = matches_difficulty(hash_hex, difficulty_hex)
    /\ validated' = TRUE
    /\ UNCHANGED <<serverVars, hash_hex, difficulty_hex, applied, args, out,
                   vmVars>>

NextDifficulty == Validate

SpecDifficulty == InitDifficulty /\ [][NextDifficulty]_vars

(* What the difficulty rule says, bit by bit *)

\* Bit i (1 = most significant) of a hex text.
HexBit(s, i) ==
    (HexVal(s[((i - 1) \div 4) + 1]) \div (2 ^ (3 - ((i - 1) % 4)))) % 2

IsHexText(s) == \A i \in 1..Len(s) : HexVal(s[i]) >= 0
IsDigestHex(s) == Len(s) = 2 * DIGEST_LEN /\ IsHexText(s)
IsMaskHex(s) == Len(s) = 8 /\ IsHexText(s)

\* Check A: (prefix | mask) == mask on the first 32 bits.
MaskUnionCheck(h, m) ==
    \A i \in 1..32 :
        (IF HexBit(h, i) = 1 \/ HexBit(m, i) = 1 THEN 1 ELSE 0) = HexBit(m, i)

\* Z: the number of leading zero bits of the 32-bit mask.
LeadingZeroBits(m) ==
    CHOOSE z \in 0..32 :
        /\ \A i \in 1..z : HexBit(m, i) = 0
        /\ z = 32 \/ HexBit(m, z + 1) = 1

\* Check B: the first Z bits of the hash are zero.
ZeroBitsCheck(h, m) == \A i \in 1..LeadingZeroBits(m) : HexBit(h, i) = 0

\* C1: for the hex of a 64-byte digest and an 8-hex-character mask,
\* matches_difficulty returns true exactly when the mask-union check (A) and
\* the zero-bits check (B) both hold, and false in every other case.
C1_DualPredicate ==
    (validated /\ IsDigestHex(hash_hex) /\ IsMaskHex(difficulty_hex)) =>
        /\ result.ok
        /\ result.val = (MaskUnionCheck(hash_hex, difficulty_hex)
                         /\ ZeroBitsCheck(hash_hex, difficulty_hex))

\* The predicate was applied where the zero-bits check alone would accept.
C1_Witness ==
    /\ validated /\ IsDigestHex(hash_hex) /\ IsMaskHex(difficulty_hex)
    /\ result.ok /\ ~result.val
    /\ LeadingZeroBits(difficulty_hex) > 0
    /\ ZeroBitsCheck(hash_hex, difficulty_hex)
    /\ ~MaskUnionCheck(hash_hex, difficulty_hex)

\* The predicate accepted a hash that is not all zeros.
C1_WitnessAccept ==
    /\ validated /\ result.ok /\ result.val
    /\ LeadingZeroBits(difficulty_hex) > 0
    /\ \E i \in 1..32 : HexBit(hash_hex, i) = 1

----------------------------------------------------------------------------
(* /start-mining for workers 0 and 1 *)

\* Listed nonces whose digest does not meet the difficulty.
ColdEntries(cold, challenge) ==
    {[pt |-> MinePoint(h[1], h[2], challenge),
      digest |-> HighDigest(32 + (h[2] % 16))] : h \in cold}

StartOracles ==
    {OracleOf(MineEntries({<<KeyA, 3>>, <<KeyA, 7>>,
                           <<KeyA, WORKER_WINDOW + BATCH_SIZE + 1>>},
                          Challenge(KeyA, Mask12))
              \cup ColdEntries({<<KeyA, WORKER_WINDOW + 5>>},
                               Challenge(KeyA, Mask12))),
     OracleOf(MineEntries({<<KeyA, BATCH_SIZE + 2>>, <<KeyA, WORKER_WINDOW + 1>>,
                           <<KeyB, 0>>},
                          Challenge(KeyA, Mask12))
              \cup ColdEntries({<<KeyA, 1>>}, Challenge(KeyA, Mask12)))}

StartMiningRequests ==
    {[worker_id |-> U64(w), address |-> Address,
      challenge |-> Challenge(KeyA, Mask12)] : w \in {0, 1}}

InitStart ==
    /\ ServerInit
    /\ oracle \in StartOracles
    /\ overflow_checks \in BOOLEAN
    /\ hash_hex = <<>> /\ difficulty_hex = <<>>
    /\ result = Err("not applied") /\ validated = FALSE

NextStart ==
    \E t \in Threads :
        \/ \E req \in InitRequests : InitBuild(t, req)
        \/ InitStore(t)
        \/ \E req \in StartMiningRequests : StartMiningEntry(t, req)
        \/ StartMiningStats(t)
        \/ StartMiningActive(t)
        \/ StartMiningBatch(t)
        \/ StartMiningReturn(t)
        \/ Recycle(t)

SpecStart == InitStart /\ [][NextStart]_vars

----------------------------------------------------------------------------
(* /start-mining with a worker_id whose window does not fit 64 bits *)

\* 2^55
WorkerId55 == <<0, 0, 0, 0, 0, 0, 128, 0>>

WorkersRequests ==
    {[worker_id |-> w, address |-> Address,
      challenge |-> Challenge(KeyA, Mask12)] : w \in {U64(0), WorkerId55}}

InitWorkers ==
    /\ ServerInit
    /\ oracle = OracleOf(MineEntries({<<KeyA, BATCH_SIZE + 1>>},
                                     Challenge(KeyA, Mask12)))
    /\ overflow_checks \in BOOLEAN
    /\ hash_hex = <<>> /\ difficulty_hex = <<>>
    /\ result = Err("not applied") /\ validated = FALSE

NextWorkers ==
    \E t \in Threads :
        \/ \E req \in InitRequests : InitBuild(t, req)
        \/ InitStore(t)
        \/ \E req \in WorkersRequests : StartMiningEntry(t, req)
        \/ StartMiningStats(t)
        \/ StartMiningActive(t)
        \/ StartMiningBatch(t)
        \/ StartMiningReturn(t)
        \/ Recycle(t)

SpecWorkers == InitWorkers /\ [][NextWorkers]_vars

----------------------------------------------------------------------------
(* Properties of /mine and /start-mining *)

\* The two conditions of the difficulty on a digest in hex.
MeetsDifficulty(hash, difficulty) ==
    /\ IsDigestHex(hash) /\ IsMaskHex(difficulty)
    /\ MaskUnionCheck(hash, difficulty)
    /\ ZeroBitsCheck(hash, difficulty)

\* The solution for a nonce on a ROM, if its digest meets the difficulty.
SolutionOf(nonce_num, rom, req) ==
    LET nonce == hex_encode(Reverse(nonce_num))
        preimage == nonce \o req.address \o req.challenge.challenge_id
                    \o req.challenge.difficulty \o req.challenge.no_pre_mine
                    \o req.challenge.latest_submission
                    \o req.challenge.no_pre_mine_hour
        hash == hex_encode(sh_hash(preimage, rom, NB_LOOPS, NB_INSTRS))
    IN  IF MeetsDifficulty(hash, req.challenge.difficulty)
        THEN Some([nonce |-> nonce, hash |-> hash, preimage |-> preimage])
        ELSE None

\* Whether some nonce of the batch of BATCH_SIZE nonces from lo on has a
\* digest that meets the difficulty.
BatchHasMatch(rom, req, lo) ==
    \/ MeetsDifficulty(hex_encode(DefaultDigest), req.challenge.difficulty)
    \/ \E n \in ListedNonces(rom, req, lo) : SolutionOf(n, rom, req).some

\* C4: a start_mining call of worker w probes first the nonce w * 10^9 and
\* only nonces of [w * 10^9, (w+1) * 10^9), so that calls with different
\* worker_id never probe the same nonce.
C4_DisjointWindows ==
    /\ \A t \in Threads :
          (calls[t].kind = "start_mining" /\ Len(calls[t].evals) > 0) =>
             \A base \in {U64Mul(calls[t].req.worker_id, U64(WORKER_WINDOW))} :
                /\ ~base.overflow
                /\ calls[t].evals[1].salt = base.val
                /\ \A k \in 1..Len(calls[t].evals) :
                      LET offset == U64Small(U64WrappingSub(
                                        calls[t].evals[k].salt, base.val))
                      IN  offset >= 0 /\ offset + BATCH_SIZE <= WORKER_WINDOW
    /\ \A t, u \in Threads :
          (/\ calls[t].kind = "start_mining" /\ calls[u].kind = "start_mining"
           /\ calls[t].req.worker_id # calls[u].req.worker_id) =>
             \A e1 \in Range(calls[t].evals), e2 \in Range(calls[u].evals) :
                LET ahead == U64Small(U64WrappingSub(e1.salt, e2.salt))
                IN  ~(ahead >= 0 /\ ahead < BATCH_SIZE)

\* C5: a mine call with a ROM and a valid nonce_start answers exactly the
\* nonces of [nonce_start, nonce_start + batch_size) whose digest meets the
\* difficulty, each once and in order, with hashes_computed = batch_size.
C5_MineExactRange ==
    \A t \in Threads :
        (/\ calls[t].kind = "mine" /\ calls[t].pc = "done"
         /\ calls[t].entry_rom.some) =>
            \A nonce_start \in {parse_u64(calls[t].req.nonce_start)} :
                nonce_start.ok =>
                   LET req == calls[t].req
                       resp == calls[t].resp.val
                       InRange(i) ==
                           LET n == U64Add(nonce_start.val, U64(i - 1))
                           IN  IF n.overflow THEN None
                               ELSE SolutionOf(n.val, calls[t].entry_rom.val, req)
                   IN  /\ resp.status = 200
                       /\ resp.hashes_computed = req.batch_size
                       /\ resp.solutions =
                             Somes([i \in 1..req.batch_size |-> InRange(i)])

\* C6: a start_mining call runs batches of BATCH_SIZE nonces one after the
\* other from its base, goes on while a batch has no match, and answers only
\* after the first batch that has one, with exactly one solution of that
\* batch and no batch run after it.
C6_FirstMatchingBatch ==
    \A t \in Threads :
        (calls[t].kind = "start_mining" /\ calls[t].entry_rom.some) =>
            LET c == calls[t]
                rom == c.entry_rom.val
                n == Len(c.evals)
                returning == c.pc \in {"found", "done"}
            IN  /\ n = c.batches
                /\ c.pc = "done" => returning /\ n > 0
                /\ c.pc = "found" => n > 0
                /\ \A k \in 1..n :
                      /\ k > 1 => c.evals[k].salt =
                                    U64Add(c.evals[k - 1].salt, U64(BATCH_SIZE)).val
                      /\ (k < n \/ ~returning) =>
                            /\ c.evals[k].val = None
                            /\ ~BatchHasMatch(rom, c.req, c.evals[k].salt)
                      /\ (k = n /\ returning) =>
                            /\ c.evals[k].val.some
                            /\ \E m \in ListedNonces(rom, c.req, c.evals[k].salt) :
                                  c.evals[k].val = SolutionOf(m, rom, c.req)
                /\ c.pc = "done" =>
                      /\ c.resp.val.status = 200
                      /\ c.resp.val.solutions = <<c.evals[n].val.val>>

\* A call answered after a first batch without a match.
C6_Witness ==
    \E t \in Threads :
        /\ calls[t].kind = "start_mining" /\ calls[t].pc = "done"
        /\ calls[t].resp.val.status = 200
        /\ calls[t].batches = 2
        /\ calls[t].evals[1].val = None

\* A call answered one of two matching nonces of its batch.
C6_WitnessTwoMatches ==
    \E t \in Threads :
        /\ calls[t].kind = "start_mining" /\ calls[t].pc = "done"
        /\ calls[t].resp.val.status = 200
        /\ Cardinality({m \in ListedNonces(calls[t].entry_rom.val, calls[t].req,
                                          calls[t].evals[1].salt) :
                          SolutionOf(m, calls[t].entry_rom.val, calls[t].req).some}) = 2

\* C7: the hashes_computed of a start_mining answer is BATCH_SIZE times the
\* number of batches the call ran, whatever its worker_id.
C7_HashesComputed ==
    \A t \in Threads :
        (/\ calls[t].kind = "start_mining" /\ calls[t].pc = "done"
         /\ calls[t].resp.val.status = 200) =>
            calls[t].resp.val.hashes_computed = U64(BATCH_SIZE * calls[t].batches)

----------------------------------------------------------------------------
(* /mine and /start-mining with difficulties the predicate cannot apply *)

\* Six characters; a letter that is not a hex digit; a sign that
\* u32::from_str_radix accepts and hex::decode does not.
ShortMask == <<"0", "0", "0", "f", "f", "f">>
LetterMask == <<"0", "0", "0", "f", "f", "f", "g", "f">>
SignMask == <<"+", "0", "0", "f", "f", "f", "f", "f">>
BadMasks == {ShortMask, LetterMask, SignMask}

BadDifficultyMineRequests ==
    {[worker_id |-> U64(0), address |-> Address,
      challenge |-> Challenge(KeyA, d), batch_size |-> 2,
      nonce_start |-> <<"0">>] : d \in BadMasks}

BadDifficultyStartRequests ==
    {[worker_id |-> U64(0), address |-> Address,
      challenge |-> Challenge(KeyA, d)] : d \in BadMasks \cup {Mask12}}

\* Nonce 0 has a digest whose first bytes fit the mask 000fffff, nonce 1 has
\* one that does not, under each difficulty.
BadDifficultyOracle ==
    OracleOf(UNION {MineEntries({<<KeyA, 0>>}, Challenge(KeyA, d))
                    \cup ColdEntries({<<KeyA, 1>>}, Challenge(KeyA, d)) :
                       d \in BadMasks \cup {Mask12}})

InitBadDifficulty ==
    /\ ServerInit
    /\ oracle = BadDifficultyOracle
    /\ overflow_checks = FALSE
    /\ hash_hex = <<>> /\ difficulty_hex = <<>>
    /\ result = Err("not applied") /\ validated = FALSE

NextBadDifficulty ==
    \E t \in Threads :
        \/ \E req \in InitRequests : InitBuild(t, req)
        \/ InitStore(t)
        \/ \E req \in BadDifficultyMineRequests : MineEntry(t, req)
        \/ \E i \in 1..2 : MineEval(t, i)
        \/ \E req \in BadDifficultyStartRequests : StartMiningEntry(t, req)
        \/ StartMiningStats(t)
        \/ StartMiningActive(t)
        \/ StartMiningBatch(t)
        \/ StartMiningReturn(t)
        \/ Recycle(t)

SpecBadDifficulty == InitBadDifficulty /\ [][NextBadDifficulty]_vars

\* C11: a mine or start_mining call whose difficulty is not 8 hex characters
\* is answered with a bad-request error: it is not answered with a success
\* and it searches no nonce.
C11_BadDifficultyRejected ==
    \A t \in Threads :
        (/\ calls[t].kind \in {"mine", "start_mining"}
         /\ calls[t].entry_rom.some
         /\ ~IsMaskHex(calls[t].req.challenge.difficulty)) =>
            /\ calls[t].evals = <<>>
            /\ calls[t].pc = "done" => calls[t].resp.val.status = 400

\* Whether the predicate returns an error on the digest of a nonce.
PredicateErrs(nonce_num, rom, req) ==
    ~matches_difficulty(
        hex_encode(sh_hash(build_preimage(nonce_hex_of(nonce_num), req.address,
                                          req.challenge),
                           rom, NB_LOOPS, NB_INSTRS)),
        req.challenge.difficulty).ok

\* C12: in mine and start_mining a nonce on which the predicate returns an
\* error gives no solution, and the error aborts neither the batch nor the
\* call: mine still evaluates every nonce and answers, start_mining goes on.
C12_ErrorIsNoMatch ==
    \A t \in Threads :
        LET c == calls[t]
        IN  /\ (c.kind = "mine" /\ c.entry_rom.some /\ c.pc \in {"map", "done"}
                /\ parse_u64(c.req.nonce_start).ok) =>
                  /\ \A e \in Range(c.evals) :
                        PredicateErrs(e.salt, c.entry_rom.val, c.req) =>
                            e.val = None
                  /\ c.pc = "done" =>
                        /\ c.resp.val.status = 200
                        /\ Len(c.evals) = c.req.batch_size
                        /\ \A k \in 1..Len(c.resp.val.solutions) :
                              \A e \in Range(c.evals) :
                                 e.val = Some(c.resp.val.solutions[k]) =>
                                    ~PredicateErrs(e.salt, c.entry_rom.val, c.req)
            /\ (c.kind = "start_mining" /\ c.entry_rom.some
                /\ \E n \in ListedNonces(c.entry_rom.val, c.req, U64(0)) :
                      PredicateErrs(n, c.entry_rom.val, c.req)) =>
                  /\ \A e \in Range(c.evals) :
                        e.val.some => ~PredicateErrs(Reverse(hex_decode(e.val.val.nonce).val),
                                                     c.entry_rom.val, c.req)
                  /\ c.resp # Some(Panicked)
                  /\ (c.pc = "done" => c.resp.val.status = 200)

\* A mine call answered after its first nonce made the predicate fail and its
\* second did not, and a start_mining call still looping after such a batch.
C12_Witness ==
    \E t, u \in Threads :
        /\ calls[t].kind = "mine" /\ calls[t].pc = "done"
        /\ calls[t].resp.val.status = 200
        /\ Len(calls[t].evals) = 2
        /\ \E e1, e2 \in Range(calls[t].evals) :
              /\ PredicateErrs(e1.salt, calls[t].entry_rom.val, calls[t].req)
              /\ ~PredicateErrs(e2.salt, calls[t].entry_rom.val, calls[t].req)
        /\ calls[u].kind = "start_mining" /\ calls[u].pc = "loop"
        /\ calls[u].batches > 0
        /\ \E n \in ListedNonces(calls[u].entry_rom.val, calls[u].req, U64(0)) :
              PredicateErrs(n, calls[u].entry_rom.val, calls[u].req)

----------------------------------------------------------------------------
(* The difficulty predicate on well-formed and malformed text *)

Text(str, n) == [i \in 1..n |-> str]

HashTexts ==
    {<<>>, Text("0", 7), Text("0", 8), Text("f", 8), Text("0", 9),
     Text("f", 10), Text("0", 7) \o <<"g">>, <<"g">> \o Text("0", 7),
     Text("0", 8) \o <<"g", "0">>, <<"+">> \o Text("0", 7),
     Text("0", 7) \o <<"F">>, Text("0", 2 * DIGEST_LEN)}

DifficultyTexts ==
    {<<>>, Text("f", 7), Text("f", 8), Text("0", 8), Mask12, Text("f", 9),
     Text("f", 7) \o <<"g">>, <<"+">> \o Text("0", 7), <<"+">> \o Text("f", 7),
     <<"-">> \o Text("0", 7), Text("0", 7) \o <<"F">>}

InitMalformed ==
    /\ ServerInit
    /\ oracle = <<>>
    /\ overflow_checks = FALSE
    /\ hash_hex \in HashTexts
    /\ difficulty_hex \in DifficultyTexts
    /\ result = Err("not applied")
    /\ validated = FALSE

NextMalformed == Validate

SpecMalformed == InitMalformed /\ [][NextMalformed]_vars

\* C13: matches_difficulty returns an error exactly when hash_hex has fewer
\* than 8 characters, difficulty_hex has not exactly 8 characters, or one of
\* them has a character that is not a hex digit; otherwise a boolean.
C13_ErrorIffMalformed ==
    validated =>
        (~result.ok <=>
            \/ Len(hash_hex) < 8
            \/ Len(difficulty_hex) # 8
            \/ ~IsHexText(hash_hex)
            \/ ~IsHexText(difficulty_hex))

----------------------------------------------------------------------------
(* /start-mining and /stats as time passes *)

StatsOracle ==
    OracleOf(MineEntries({<<KeyA, BATCH_SIZE + 1>>}, Challenge(KeyA, Mask12)))

InitStats ==
    /\ ServerInit
    /\ oracle = StatsOracle
    /\ overflow_checks = FALSE
    /\ hash_hex = <<>> /\ difficulty_hex = <<>>
    /\ result = Err("not applied") /\ validated = FALSE

NextStats ==
    \/ Tick
    \/ \E t \in Threads :
          \/ InitBuild(t, [no_pre_mine |-> KeyA, ash_config |-> AshConfig])
          \/ InitStore(t)
          \/ StartMiningEntry(t, StartMiningRequest)
          \/ StartMiningStats(t)
          \/ StartMiningActive(t)
          \/ StartMiningBatch(t)
          \/ StartMiningReturn(t)
          \/ StatsReset(t)
          \/ StatsLoadTotal(t)
          \/ StatsRespond(t)
          \/ Recycle(t)

SpecStats == InitStats /\ [][NextStats]_vars

\* C14: whatever the interleaving of start_mining batches and stats reads,
\* total_hashes changes only by a batch adding BATCH_SIZE to it, so that no
\* increment is lost, or by a stats call whose reset is due setting it to 0.
C14_MonotonicBetweenResets ==
    [][/\ (\A t \in Threads :
              (calls[t].kind = "start_mining" /\ calls'[t].kind = "start_mining"
               /\ calls'[t].batches = calls[t].batches + 1) =>
                 TOTAL_HASHES' = TOTAL_HASHES + BATCH_SIZE)
       /\ TOTAL_HASHES' > TOTAL_HASHES =>
             \E t \in Threads :
                /\ calls[t].kind = "start_mining"
                /\ calls'[t].batches = calls[t].batches + 1
       /\ TOTAL_HASHES' < TOTAL_HASHES =>
             /\ TOTAL_HASHES' = 0
             /\ LAST_RESET_TIME' = Some(now)
             /\ \/ ~LAST_RESET_TIME.some
                \/ now - LAST_RESET_TIME.val >= RESET_SECONDS
             /\ \E t \in Threads :
                   calls[t].pc = "idle" /\ calls'[t].kind = "stats"]_vars

\* An hour after an earlier reset the counter has been zeroed again while a
\* start_mining call that had run a batch was still searching.
C14_Witness ==
    /\ LAST_RESET_TIME.some /\ LAST_RESET_TIME.val >= RESET_SECONDS
    /\ TOTAL_HASHES = 0
    /\ \E t, u \in Threads :
          /\ calls[t].kind = "start_mining" /\ calls[t].pc = "loop"
          /\ calls[t].batches = 1
          /\ calls[u].kind = "stats" /\ calls[u].pc = "load_total"
          /\ calls[u].locals.reset

\* C15: once 3600 seconds have passed since the previous reset the counter
\* has been zeroed, whether or not a stats call was made.
C15_HourlyReset ==
    (LAST_RESET_TIME.some /\ now - LAST_RESET_TIME.val > RESET_SECONDS) =>
        TOTAL_HASHES = 0

-----------------------------------------------------------------------------
(* set_cpu_mode_handler: the CPU mode and the global Rayon pool *)

CpuPercentages == {50, DEFAULT_CPU_PERCENTAGE}

\* str::to_lowercase on the mode texts the requests carry
to_lowercase(mode) ==
    CASE mode = "MAX" -> "max"
      [] mode = "Normal" -> "normal"
      [] OTHER -> mode

SetCpuModeRequests == {[mode |-> m] : m \in {"max", "normal", "MAX", "turbo"}}

\* max(1, (num_cpus * 9) / 10) for max, max(1, num_cpus / 2) for normal
cpu_thread_count(mode, cores) ==
    IF mode = "max" THEN Max(1, (cores * 9) \div 10)
                    ELSE Max(1, cores \div 2)

\* let mode = req.mode.to_lowercase(); an unknown mode is a bad request,
\* otherwise the mode is written to CPU_MODE under its write lock.
SetCpuModeStore(t, req) ==
    /\ Accept(t)
    /\ LET mode == to_lowercase(req.mode)
           c == NewCall("set_cpu_mode", req)
       IN  IF mode # "max" /\ mode # "normal"
           THEN /\ calls' = [calls EXCEPT ![t] = Finished(c,
                       BadRequest("Invalid mode. Must be 'max' or 'normal'"))]
                /\ UNCHANGED CPU_MODE
           ELSE /\ CPU_MODE' = mode
                /\ calls' = [calls EXCEPT ![t] =
                       [c EXCEPT !.pc = "build", !.locals = [mode |-> mode]]]
    /\ UNCHANGED <<ROM, TOTAL_HASHES, SOLUTIONS_FOUND, MINING_ACTIVE,
                   STATS_START_TIME, LAST_RESET_TIME, poolVars, oracle, now,
                   overflow_checks, pureVars>>

\* ThreadPoolBuilder::new().num_threads(thread_count).build_global().ok(),
\* then the response {mode, thread_count}
SetCpuModeBuild(t) ==
    /\ calls[t].kind = "set_cpu_mode" /\ calls[t].pc = "build"
    /\ LET mode == calls[t].locals.mode
           thread_count == cpu_thread_count(mode, num_cpus)
       IN  /\ GLOBAL_POOL' = build_global(GLOBAL_POOL, thread_count)
           /\ calls' = [calls EXCEPT ![t] =
                 Finished(@, [status |-> 200, mode |-> mode,
                              thread_count |-> thread_count])]
    /\ UNCHANGED <<ROM, TOTAL_HASHES, SOLUTIONS_FOUND, MINING_ACTIVE,
                   STATS_START_TIME, LAST_RESET_TIME, CPU_MODE, num_cpus, issued,
                   oracle, now, overflow_checks, pureVars>>

InitCpu ==
    /\ GlobalsInit
    /\ \E cores \in 1..MaxCores, cpu_percentage \in CpuPercentages :
          MainInit(cores, cpu_percentage)
    /\ PureIdle
    /\ VmIdle
    /\ oracle = <<>>
    /\ overflow_checks = FALSE
    /\ hash_hex = <<>> /\ difficulty_hex = <<>>
    /\ result = Err("not applied") /\ validated = FALSE

NextCpu ==
    \E t \in Threads :
       \/ \E req \in SetCpuModeRequests : SetCpuModeStore(t, req)
       \/ SetCpuModeBuild(t)
       \/ Recycle(t)

SpecCpu == InitCpu /\ [][NextCpu]_vars

\* C16: a set_cpu_mode call that succeeds returns thread_count =
\* max(1, floor(cores*9/10)) for max and max(1, floor(cores/2)) for normal,
\* and when it returns the global worker pool has exactly that many threads.
C16_PoolHasThreadCount ==
    [][\A t \in Threads :
          (calls[t].kind = "set_cpu_mode" /\ calls[t].pc = "build"
              /\ calls'[t].pc = "done") =>
             /\ calls'[t].resp.val.thread_count =
                   (IF calls'[t].resp.val.mode = "max"
                    THEN Max(1, (num_cpus * 9) \div 10)
                    ELSE Max(1, num_cpus \div 2))
             /\ GLOBAL_POOL' = Some(calls'[t].resp.val.thread_count)]_vars

-----------------------------------------------------------------------------
(* validation.rs: difficulty_to_zero_bits and estimate_hashes_needed *)

U64_MAX == [i \in 1..8 |-> 255]

\* u64::pow, wrapping: base multiplied by itself exp times.
RECURSIVE u64_pow(_, _)
u64_pow(base, exp) ==
    IF exp = 0 THEN U64(1)
    ELSE CHOOSE r \in {U64Mul(base, p).val : p \in {u64_pow(base, exp - 1)}} :
            TRUE

\* The estimate without the cap at 64 zero bits.
estimate_hashes_needed_uncapped(difficulty) ==
    LET zero_bits == difficulty_to_zero_bits(difficulty)
    IN  IF ~zero_bits.ok THEN zero_bits
        ELSE Ok(u64_pow(U64(2), zero_bits.val))

estimate_hashes_needed(difficulty) ==
    LET zero_bits == difficulty_to_zero_bits(difficulty)
    IN  IF ~zero_bits.ok THEN zero_bits
        ELSE IF zero_bits.val >= 64 THEN Ok(U64_MAX)
        ELSE Ok(u64_pow(U64(2), zero_bits.val))

MaxZeroBytes == 9

\* An 8-character mask: k zero digits, the digit c, then fill.
MaskText(k, c, fill) ==
    [i \in 1..8 |-> IF i <= k THEN "0" ELSE IF i = k + 1 THEN c ELSE fill]

NonZeroDigits ==
    {HexDigits[i] : i \in 2..16} \cup {UpperHexDigits[i] : i \in 1..6}

ExampleMask == <<"0", "0", "0", "0", "f", "0", "f", "f">>
ZeroTailMask == <<"0", "0", "0", "1", "0", "0", "0", "0">>

MaskTexts ==
    {MaskText(k, c, fill) :
        k \in 0..7, c \in NonZeroDigits, fill \in {"0", "5", "f"}}
    \cup {Text("0", 8), ExampleMask}

\* Difficulty texts of other lengths: zero bytes followed by a short tail.
LongTexts ==
    {Text("0", 2 * j) \o tail :
        j \in 0..MaxZeroBytes,
        tail \in {<<>>, <<"0", "1">>, <<"8", "0">>, <<"f", "f">>,
                  <<"1", "F">>, <<"0", "1", "0", "0">>}}

UndecodableTexts == {<<"0">>, Text("f", 7), Text("0", 7) \o <<"g">>,
                     <<"+">> \o Text("0", 7)}

EstimateInputs == MaskTexts \cup LongTexts \cup UndecodableTexts

InitEstimate ==
    /\ GlobalsInit
    /\ VmIdle
    /\ MainInit(MaxCores, DEFAULT_CPU_PERCENTAGE)
    /\ oracle = <<>>
    /\ overflow_checks = FALSE
    /\ hash_hex = <<>> /\ difficulty_hex = <<>>
    /\ result = Err("not applied") /\ validated = FALSE
    /\ applied = "none"
    /\ args \in {<<d>> : d \in EstimateInputs}
    /\ out = <<>>

ApplyZeroBits ==
    /\ applied = "none"
    /\ applied' = "difficulty_to_zero_bits"
    /\ out' = difficulty_to_zero_bits(args[1])
    /\ UNCHANGED <<serverVars, hash_hex, difficulty_hex, result, validated,
                   args, vmVars>>

ApplyEstimate ==
    /\ applied = "none"
    /\ applied' = "estimate_hashes_needed"
    /\ out' = estimate_hashes_needed(args[1])
    /\ UNCHANGED <<serverVars, hash_hex, difficulty_hex, result, validated,
                   args, vmVars>>

NextEstimate == ApplyZeroBits \/ ApplyEstimate

SpecEstimate == InitEstimate /\ [][NextEstimate]_vars

\* The number of leading zero bits of a hex text of any length.
LeadingZeroBitsOf(s) ==
    CHOOSE z \in 0..(4 * Len(s)) :
        /\ \A i \in 1..z : HexBit(s, i) = 0
        /\ z = 4 * Len(s) \/ HexBit(s, z + 1) = 1

\* 2^z for z < 64, as a u64.
Pow2(z) == [i \in 1..8 |-> IF i = (z \div 8) + 1 THEN 2 ^ (z % 8) ELSE 0]

\* C17: for every difficulty of exactly 8 hex characters,
\* difficulty_to_zero_bits returns the number of leading zero bits of the
\* 32-bit big-endian mask: the bits of whole zero bytes and the leading
\* zeros of the first non-zero byte, nothing after it.
C17_ZeroBitsIsLeadingZeros ==
    (applied = "difficulty_to_zero_bits" /\ IsMaskHex(args[1])) =>
        out = Ok(LeadingZeroBits(args[1]))

C17_Witness ==
    /\ applied = "difficulty_to_zero_bits"
    /\ args = <<ZeroTailMask>>
    /\ out = Ok(15)

C18_WitnessBelowCap ==
    /\ applied = "estimate_hashes_needed"
    /\ LeadingZeroBitsOf(args[1]) = 63
    /\ out = Ok(<<0, 0, 0, 0, 0, 0, 0, 128>>)

\* C19: for the difficulty 0000f0ff, estimate_hashes_needed returns
\* 1048576 = 2^20.
C19_ExampleEstimate ==
    (applied = "estimate_hashes_needed" /\ args = <<ExampleMask>>) =>
        out = Ok(U64(1048576))

-----------------------------------------------------------------------------
(* preimage.rs: the preimage of a nonce, as mine and start_mining build it *)

MaxFieldLen == 2

FieldTexts(c) == {Text(c, n) : n \in 0..MaxFieldLen}

PreimageNonces ==
    {U64(0), U64(1), U64(171), U64(4096), WorkerId55, U64_MAX}

PreimageChallenges ==
    {[challenge_id |-> id, difficulty |-> d, no_pre_mine |-> k,
      latest_submission |-> s, no_pre_mine_hour |-> h] :
        id \in FieldTexts("c"), d \in {<<>>, Mask12}, k \in {KeyA, <<"0", "b">>},
        s \in {<<>>, <<"s">>}, h \in FieldTexts("7")}

InitPreimage ==
    /\ GlobalsInit
    /\ VmIdle
    /\ MainInit(MaxCores, DEFAULT_CPU_PERCENTAGE)
    /\ oracle = <<>>
    /\ overflow_checks = FALSE
    /\ hash_hex = <<>> /\ difficulty_hex = <<>>
    /\ result = Err("not applied") /\ validated = FALSE
    /\ applied = "none"
    /\ args \in {[nonces |-> <<n1, n2>>, address |-> a, challenge |-> c] :
                    n1 \in PreimageNonces, n2 \in PreimageNonces,
                    a \in FieldTexts("0"), c \in PreimageChallenges}
    /\ out = <<>>

\* let nonce_hex = format!("{:016x}", nonce_num);
\* let preimage = build_preimage(&nonce_hex, &req.address, &req.challenge);
ApplyPreimage ==
    /\ applied = "none"
    /\ applied' = "build_preimage"
    /\ out' = [i \in 1..2 |->
                 build_preimage(nonce_hex_of(args.nonces[i]), args.address,
                                args.challenge)]
    /\ UNCHANGED <<serverVars, hash_hex, difficulty_hex, result, validated,
                   args, vmVars>>

NextPreimage == ApplyPreimage

SpecPreimage == InitPreimage /\ [][NextPreimage]_vars

IsLowerHexDigit(c) == \E i \in 1..16 : HexDigits[i] = c

\* The first 16 characters of p are lowercase hex digits that read, most
\* significant first, as the u64 n.
StartsWithNonceHex(p, n) ==
    /\ Len(p) >= 16
    /\ \A i \in 1..16 : IsLowerHexDigit(p[i])
    /\ \A j \in 1..8 : 16 * HexVal(p[2 * j - 1]) + HexVal(p[2 * j]) = n[9 - j]

\* The fields after the nonce, in the order of the preimage.
PreimageFields(address, challenge) ==
    <<address, challenge.challenge_id, challenge.difficulty,
      challenge.no_pre_mine, challenge.latest_submission,
      challenge.no_pre_mine_hour>>

RECURSIVE Concat(_)
Concat(seqs) == IF seqs = <<>> THEN <<>> ELSE Head(seqs) \o Concat(Tail(seqs))

RECURSIVE SumLen(_)
SumLen(seqs) == IF seqs = <<>> THEN 0 ELSE Len(Head(seqs)) + SumLen(Tail(seqs))

\* C20: the preimage is the 16-character lowercase zero-padded hex of the
\* nonce followed, with no separator, by address, challenge_id, difficulty,
\* no_pre_mine, latest_submission and no_pre_mine_hour; its length is 16 plus
\* the lengths of the six fields; two different nonces give two different
\* preimages for the same address and challenge.
C20_PreimageLayout ==
    applied = "build_preimage" =>
        LET fields == PreimageFields(args.address, args.challenge)
        IN  /\ \A i \in 1..2 :
                  /\ StartsWithNonceHex(out[i], args.nonces[i])
                  /\ Len(out[i]) = 16 + SumLen(fields)
                  /\ SubSeq(out[i], 17, Len(out[i])) = Concat(fields)
            /\ args.nonces[1] # args.nonces[2] => out[1] # out[2]

C20_Witness ==
    /\ applied = "build_preimage"
    /\ args.nonces = <<U64(1), U64(4096)>>
    /\ Len(args.address) = 2
    /\ args.challenge.difficulty = Mask12
    /\ Len(out[1]) = 16 + 2 + SumLen(Tail(PreimageFields(args.address,
                                                        args.challenge)))
    /\ out[1] # out[2]

-----------------------------------------------------------------------------
(* hashengine.rs: u64 and u32 operations of the VM.  A u64 is 8 bytes and a *)
(* VM counter (u32) is 4 bytes, both least significant first.               *)

RECURSIVE BitXor(_, _, _)
BitXor(a, b, n) ==
    IF n = 0 THEN 0
    ELSE ((a + b) % 2) + 2 * BitXor(a \div 2, b \div 2, n - 1)

U64Xor(a, b) == Strict([i \in 1..8 |-> BitXor(a[i], b[i], 8)])
U64And(a, b) == Strict([i \in 1..8 |-> BitAnd(a[i], b[i], 8)])
\* !a
U64Not(a) == Strict([i \in 1..8 |-> 255 - a[i]])

\* Bit k (0 = least significant) of a u64.
U64Bit(a, k) == (a[(k \div 8) + 1] \div (2 ^ (k % 8))) % 2

\* The u64 whose bit k is bit(k).
U64OfBits(bit(_)) ==
    Strict([i \in 1..8 |->
        bit(8 * i - 8) + 2 * bit(8 * i - 7) + 4 * bit(8 * i - 6)
        + 8 * bit(8 * i - 5) + 16 * bit(8 * i - 4) + 32 * bit(8 * i - 3)
        + 64 * bit(8 * i - 2) + 128 * bit(8 * i - 1)])

rotate_left(a, n) ==
    LET bit(k) == U64Bit(a, (k + 64 - (n % 64)) % 64) IN U64OfBits(bit)
rotate_right(a, n) ==
    LET bit(k) == U64Bit(a, (k + n) % 64) IN U64OfBits(bit)
reverse_bits(a) ==
    LET bit(k) == U64Bit(a, 63 - k) IN U64OfBits(bit)

\* a < b
U64Less(a, b) ==
    \E i \in 1..8 : a[i] < b[i] /\ \A j \in (i + 1)..8 : a[j] = b[j]

U64Zero == U64(0)

\* One step of long division: bring down bit k of x.
DivBit(x, d, k, st) ==
    CHOOSE next \in
      {IF twice.overflow \/ ~U64Less(shifted, d)
       THEN [rem |-> U64WrappingSub(shifted, d),
             quo |-> [st.quo EXCEPT ![(k \div 8) + 1] = @ + 2 ^ (k % 8)]]
       ELSE [rem |-> shifted, quo |-> st.quo] :
         twice \in {U64Add(st.rem, st.rem)},
         shifted \in {[U64Add(st.rem, st.rem).val EXCEPT
                          ![1] = @ + U64Bit(x, k)]}} : TRUE

\* The division steps for bits hi down to lo, the upper half of them first.
RECURSIVE DivRange(_, _, _, _, _)
DivHalves(x, d, hi, mid, lo, st) ==
    CHOOSE r \in {DivRange(x, d, m - 1, lo, n) :
                     n \in {DivRange(x, d, hi, mid, st)}, m \in {mid}} : TRUE
DivRange(x, d, hi, lo, st) ==
    IF hi < lo THEN st
    ELSE IF hi = lo THEN DivBit(x, d, hi, st)
    ELSE DivHalves(x, d, hi, (hi + lo + 1) \div 2, lo, st)

DivLoop(x, d, k, st) == DivRange(x, d, k, 0, st)

\* x / d and x % d for d # 0.
\* Operands below 2^31 are divided as integers, others bit by bit.
DivModOf(a, b) ==
    IF U64Small(a) >= 0 /\ U64Small(b) > 0
    THEN [rem |-> U64(U64Small(a) % U64Small(b)),
          quo |-> U64(U64Small(a) \div U64Small(b))]
    ELSE DivLoop(a, b, 63, [rem |-> U64Zero, quo |-> U64Zero])

U64DivMod(x, d) ==
    CHOOSE r \in {DivModOf(a, b) : a \in {Strict(x)}, b \in {Strict(d)}} : TRUE

\* ((a as u128 * b as u128) >> 64) as u64
U64MulHigh(a, b) ==
    Strict([k \in 1..8 |->
               (MulColumn(a, b, k + 8, 1) + MulCarry(a, b, k + 8)) % 256])

\* u64::isqrt: the largest r with r * r <= x, found bit by bit.
\* Bit k of the root is set when the square stays within x.
ISqrtBit(x, k, r) ==
    CHOOSE n \in
      {IF U64Less(x, sq) THEN r ELSE cand :
         cand \in {[r EXCEPT ![(k \div 8) + 1] = @ + 2 ^ (k % 8)]},
         sq \in {U64Mul([r EXCEPT ![(k \div 8) + 1] = @ + 2 ^ (k % 8)],
                        [r EXCEPT ![(k \div 8) + 1] = @ + 2 ^ (k % 8)]).val}} :
        TRUE

\* The steps for bits hi down to lo, the upper half of them first.
RECURSIVE ISqrtRange(_, _, _, _)
ISqrtHalves(x, hi, mid, lo, r) ==
    CHOOSE res \in {ISqrtRange(x, m - 1, lo, n) :
                       n \in {ISqrtRange(x, hi, mid, r)}, m \in {mid}} : TRUE
ISqrtRange(x, hi, lo, r) ==
    IF hi < lo THEN r
    ELSE IF hi = lo THEN ISqrtBit(x, hi, r)
    ELSE ISqrtHalves(x, hi, (hi + lo + 1) \div 2, lo, r)

ISqrtLoop(x, k, r) == ISqrtRange(x, k, 0, r)

isqrt(x) == CHOOSE r \in {ISqrtLoop(a, 31, U64Zero) : a \in {x}} : TRUE

\* u32 counters
U32Le(n) == Strict([i \in 1..4 |-> (n \div (256 ^ (i - 1))) % 256])
U32Max == [i \in 1..4 |-> 255]

RECURSIVE IncCarry(_, _)
IncCarry(a, i) ==
    IF i = 1 THEN 1 ELSE IF a[i - 1] = 255 THEN IncCarry(a, i - 1) ELSE 0

\* a.wrapping_add(1)
U32WrappingInc(a) == Strict([i \in 1..4 |-> (a[i] + IncCarry(a, i)) % 256])

\* u32 as u64, and u64 as u32
U32ToU64(a) == Strict([i \in 1..8 |-> IF i <= 4 THEN a[i] ELSE 0])
U64ToU32(a) == Strict([i \in 1..4 |-> a[i]])

-----------------------------------------------------------------------------
(* The hash primitives of the external crates.  Blake2b and Argon2 H' are   *)
(* deterministic functions of the bytes they are given; they are stood for  *)
(* by small mixing functions, and the run's oracle may fix chosen outputs   *)
(* of H' so that chosen programs are executed.                              *)

\* blake2b_simd::Params::new().hash_length(64).to_state()
Blake2bNew == [acc |-> 0, n |-> 0]

RECURSIVE AbsorbRange(_, _, _, _)
\* bytes[lo..hi] absorbed as bytes[lo..mid] and then bytes[mid+1..hi].
AbsorbHalves(acc, bytes, lo, mid, hi) ==
    CHOOSE r \in
      {AbsorbRange(left, bytes, m + 1, hi) :
         left \in {AbsorbRange(acc, bytes, lo, mid)}, m \in {mid}} : TRUE

AbsorbRange(acc, bytes, lo, hi) ==
    IF lo > hi THEN acc
    ELSE IF lo = hi THEN (acc * 131 + bytes[lo] + 1) % 1000003
    ELSE AbsorbHalves(acc, bytes, lo, (lo + hi) \div 2, hi)

\* The bytes from position i on, absorbed in order.
AbsorbFrom(acc, bytes, i) ==
    CHOOSE r \in {AbsorbRange(a, b, i, Len(b)) : a \in {acc}, b \in {bytes}} : TRUE

\* State::update
blake2b_update(st, bytes) ==
    [acc |-> AbsorbFrom(st.acc, bytes, 1), n |-> st.n + Len(bytes)]

\* State::finalize: 64 bytes, the state is left as it was.
blake2b_finalize(st) ==
    Strict([i \in 1..64 |->
        (((st.acc % 65536) + 251 * i) * (i + 2) + (st.acc \div 65536) + st.n)
            % 256])

\* Byte i of the expansion of a seed that absorbs to a.
ExpandByte(a, i) ==
    (((a % 65536) + i) * ((i % 97) + 3) + (a \div 65536) + (i \div 97)) % 256

\* Bytes first..first+n-1 of argon2::hprime(out, seed) for an out of out_len
\* bytes.
hprime_window(seed, out_len, first, n) ==
    LET point == <<"hprime", seed, out_len>>
        listed == IF point \in DOMAIN oracle THEN oracle[point] ELSE <<>>
    IN  CHOOSE w \in {Strict([j \in 1..n |->
                                 IF first + j - 1 <= Len(l)
                                 THEN l[first + j - 1]
                                 ELSE ExpandByte(a, first + j - 1)]) :
                      a \in {AbsorbFrom(7, seed, 1)}, l \in {listed}} : TRUE

hprime(seed, out_len) == hprime_window(seed, out_len, 1, out_len)

-----------------------------------------------------------------------------
(* hashengine.rs: instruction decoding *)

INSTR_SIZE == 20
REGS_BITS == 5
NB_REGS == 32
REGS_INDEX_MASK == 31
REGISTER_SIZE == 8

\* impl From<u8> for Instr, with an off-by-one at the ISqrt/BitRev boundary.
Instr_from_shifted(value) ==
    IF value < 40 THEN [arity |-> 3, op |-> "Add"]
    ELSE IF value < 80 THEN [arity |-> 3, op |-> "Mul"]
    ELSE IF value < 96 THEN [arity |-> 3, op |-> "MulH"]
    ELSE IF value < 112 THEN [arity |-> 3, op |-> "Div"]
    ELSE IF value < 128 THEN [arity |-> 3, op |-> "Mod"]
    ELSE IF value < 139 THEN [arity |-> 2, op |-> "ISqrt"]
    ELSE IF value < 148 THEN [arity |-> 2, op |-> "BitRev"]
    ELSE IF value < 188 THEN [arity |-> 3, op |-> "Xor"]
    ELSE IF value < 204 THEN [arity |-> 2, op |-> "RotL"]
    ELSE IF value < 220 THEN [arity |-> 2, op |-> "RotR"]
    ELSE IF value < 240 THEN [arity |-> 2, op |-> "Neg"]
    ELSE IF value < 248 THEN [arity |-> 3, op |-> "And"]
    ELSE [arity |-> 3, op |-> "Hash", v |-> value - 248]

\* impl From<u8> for Instr
Instr_from(value) ==
    IF value < 40 THEN [arity |-> 3, op |-> "Add"]
    ELSE IF value < 80 THEN [arity |-> 3, op |-> "Mul"]
    ELSE IF value < 96 THEN [arity |-> 3, op |-> "MulH"]
    ELSE IF value < 112 THEN [arity |-> 3, op |-> "Div"]
    ELSE IF value < 128 THEN [arity |-> 3, op |-> "Mod"]
    ELSE IF value < 138 THEN [arity |-> 2, op |-> "ISqrt"]
    ELSE IF value < 148 THEN [arity |-> 2, op |-> "BitRev"]
    ELSE IF value < 188 THEN [arity |-> 3, op |-> "Xor"]
    ELSE IF value < 204 THEN [arity |-> 2, op |-> "RotL"]
    ELSE IF value < 220 THEN [arity |-> 2, op |-> "RotR"]
    ELSE IF value < 240 THEN [arity |-> 2, op |-> "Neg"]
    ELSE IF value < 248 THEN [arity |-> 3, op |-> "And"]
    ELSE [arity |-> 3, op |-> "Hash", v |-> value - 248]

\* impl From<u8> for Operand; the assertion failing is "panic".
Operand_from(value) ==
    IF ~(value <= 15) THEN "panic"
    ELSE IF value < 5 THEN "Reg"
    ELSE IF value < 9 THEN "Memory"
    ELSE IF value < 13 THEN "Literal"
    ELSE IF value < 14 THEN "Special1"
    ELSE "Special2"

\* The register fields without the 5-bit mask.
register_fields_unmasked(b2, b3) ==
    LET rs == b2 * 256 + b3
    IN  [r1 |-> (rs \div (2 ^ (2 * REGS_BITS))) % 256,
         r2 |-> (rs \div (2 ^ REGS_BITS)) % 256,
         r3 |-> rs % 256]

\* let rs = ((instruction[2] as u16) << 8) | (instruction[3] as u16);
\* r1, r2, r3: rs shifted, as u8, & REGS_INDEX_MASK
register_fields(b2, b3) ==
    LET rs == b2 * 256 + b3
    IN  [r1 |-> BitAnd((rs \div (2 ^ (2 * REGS_BITS))) % 256, REGS_INDEX_MASK, 8),
         r2 |-> BitAnd((rs \div (2 ^ REGS_BITS)) % 256, REGS_INDEX_MASK, 8),
         r3 |-> BitAnd(rs % 256, REGS_INDEX_MASK, 8)]

\* decode_instruction: instruction[k] is chunk[k + 1].
decode_instruction(chunk) ==
    LET opcode == Instr_from(chunk[1])
        op1 == Operand_from(chunk[2] \div 16)
        op2 == Operand_from(BitAnd(chunk[2], 15, 8))
        rs == register_fields(chunk[3], chunk[4])
    IN  IF op1 = "panic" \/ op2 = "panic" THEN [panic |-> TRUE]
        ELSE [panic |-> FALSE, opcode |-> opcode, op1 |-> op1, op2 |-> op2,
              r1 |-> rs.r1, r2 |-> rs.r2, r3 |-> rs.r3,
              lit1 |-> SubSeq(chunk, 5, 12), lit2 |-> SubSeq(chunk, 13, 20)]

\* Instruction chunks: every opcode with some operand bytes, every operand
\* byte with some opcodes, every pair of register bytes.
DecodeVary == 2

ChunkOf(b0, b1, b2, b3) == <<b0, b1, b2, b3>> \o Fill(0, 8) \o Fill(255, 8)

DecodeChunks ==
    {ChunkOf(b0, 17 * k, 0, 0) : b0 \in 0..255, k \in 0..DecodeVary}
    \cup {ChunkOf(255 - 62 * k, b1, 255, 255) : b1 \in 0..255, k \in 0..DecodeVary}
    \cup {ChunkOf(0, 0, b2, b3) : b2 \in 0..255, b3 \in 0..255}

InitDecode ==
    /\ GlobalsInit
    /\ VmIdle
    /\ MainInit(MaxCores, DEFAULT_CPU_PERCENTAGE)
    /\ oracle = <<>>
    /\ overflow_checks = FALSE
    /\ hash_hex = <<>> /\ difficulty_hex = <<>>
    /\ result = Err("not applied") /\ validated = FALSE
    /\ applied = "none"
    /\ args \in {<<chunk>> : chunk \in DecodeChunks}
    /\ out = <<>>

ApplyDecode ==
    /\ applied = "none"
    /\ applied' = "decode_instruction"
    /\ out' = decode_instruction(args[1])
    /\ UNCHANGED <<serverVars, hash_hex, difficulty_hex, result, validated,
                   args, vmVars>>

NextDecode == ApplyDecode

SpecDecode == InitDecode /\ [][NextDecode]_vars

\* The opcode table: first byte, last byte, operator, number of operands.
OpcodeTable ==
    <<<<0, 39, "Add", 3>>, <<40, 79, "Mul", 3>>, <<80, 95, "MulH", 3>>,
      <<96, 111, "Div", 3>>, <<112, 127, "Mod", 3>>, <<128, 137, "ISqrt", 2>>,
      <<138, 147, "BitRev", 2>>, <<148, 187, "Xor", 3>>,
      <<188, 203, "RotL", 2>>, <<204, 219, "RotR", 2>>, <<220, 239, "Neg", 2>>,
      <<240, 247, "And", 3>>, <<248, 255, "Hash", 3>>>>

\* The operand table: first nibble, last nibble, kind.
OperandTable ==
    <<<<0, 4, "Reg">>, <<5, 8, "Memory">>, <<9, 12, "Literal">>,
      <<13, 13, "Special1">>, <<14, 15, "Special2">>>>

Rows(table, b) == {i \in 1..Len(table) : table[i][1] <= b /\ b <= table[i][2]}
Row(table, b) == table[CHOOSE i \in Rows(table, b) : TRUE]

\* Bits lo..lo+4 (0 = least significant) of the 16-bit b2*256 + b3.
FiveBits(b2, b3, lo) ==
    LET bit(k) == IF k < 8 THEN (b3 \div (2 ^ k)) % 2
                  ELSE (b2 \div (2 ^ (k - 8))) % 2
    IN  bit(lo) + 2 * bit(lo + 1) + 4 * bit(lo + 2) + 8 * bit(lo + 3)
        + 16 * bit(lo + 4)

\* C22: every opcode byte decodes to the one operator whose range holds it,
\* a Hash with variant byte - 248 in 0..7, every operand-types byte gives op1
\* from its high nibble and op2 from its low nibble by the operand table, and
\* no byte makes decoding fail.
C22_DecodingTotal ==
    applied = "decode_instruction" =>
        LET b0 == args[1][1]
            b1 == args[1][2]
        IN  /\ ~out.panic
            /\ Cardinality(Rows(OpcodeTable, b0)) = 1
            /\ out.opcode.op = Row(OpcodeTable, b0)[3]
            /\ out.opcode.arity = Row(OpcodeTable, b0)[4]
            /\ out.opcode.op = "Hash" =>
                  out.opcode.v = b0 - 248 /\ out.opcode.v \in 0..7
            /\ Cardinality(Rows(OperandTable, b1 \div 16)) = 1
            /\ Cardinality(Rows(OperandTable, b1 % 16)) = 1
            /\ out.op1 = Row(OperandTable, b1 \div 16)[3]
            /\ out.op2 = Row(OperandTable, b1 % 16)[3]

C22_Witness ==
    /\ applied = "decode_instruction"
    /\ args[1][1] = 137 /\ out.opcode.op = "ISqrt"

C22_WitnessHash ==
    /\ applied = "decode_instruction"
    /\ args[1][1] = 255 /\ out.opcode.op = "Hash" /\ out.opcode.v = 7
    /\ args[1][2] = 222 /\ out.op1 = "Special1" /\ out.op2 = "Special2"

\* C23: for every pair of bytes b2, b3 the decoded r1, r2, r3 are bits
\* 10..14, 5..9 and 0..4 of b2*256 + b3, each in 0..31.
C23_RegisterFields ==
    applied = "decode_instruction" =>
        LET b2 == args[1][3]
            b3 == args[1][4]
        IN  /\ out.r1 = FiveBits(b2, b3, 10)
            /\ out.r2 = FiveBits(b2, b3, 5)
            /\ out.r3 = FiveBits(b2, b3, 0)
            /\ {out.r1, out.r2, out.r3} \subseteq 0..(NB_REGS - 1)

C23_Witness ==
    /\ applied = "decode_instruction"
    /\ args[1][3] = 255 /\ args[1][4] = 255
    /\ out.r1 = 31 /\ out.r2 = 31 /\ out.r3 = 31

-----------------------------------------------------------------------------
(* rom.rs, as hashengine.rs uses it: rom.digest and rom.at(i) *)

\* str::as_bytes of the few characters ROM keys are written with.
ByteOfChar(c) ==
    CASE c = "a" -> 97 [] c = "b" -> 98 [] OTHER -> 48 + ((HexVal(c) + 16) % 16)

KeyBytes(rom) == [i \in 1..Len(rom.key) |-> ByteOfChar(rom.key[i])]

\* rom.digest: 64 bytes that depend on the table, that is on its key.
RomDigest(rom) == blake2b_finalize(blake2b_update(Blake2bNew, KeyBytes(rom)))

\* The offset of the 64-byte window rom.at(i) returns: (i * 64) mod rom_size.
RomWindowOffset(rom, i) ==
    CHOOSE offset \in
      {U64Small(r) :
         r \in {U64DivMod(U64Mul(U32ToU64(i), U64(64)).val,
                          U64(rom.rom_size)).rem}} : TRUE

\* The 64 bytes of the table from a byte offset on.
RomWindow(rom, offset) ==
    CHOOSE w \in {Strict([j \in 1..64 |-> ExpandByte(a, offset + j)]) :
                     a \in {AbsorbFrom(11, KeyBytes(rom), 1)}} : TRUE

rom_at(rom, i) == RomWindow(rom, RomWindowOffset(rom, i))

-----------------------------------------------------------------------------
(* hashengine.rs: struct Program *)

\* (n as usize), a usize product or a usize value kept to the target's width
AsUsize(a) == Strict([i \in 1..8 |-> IF 8 * i <= usize_bits THEN a[i] ELSE 0])

\* Program::new: nb_instrs as usize * INSTR_SIZE zero bytes.  The buffer is
\* held as its length and the seed it was last filled from, None when it
\* still holds the zeros.
Program_new(nb_instrs) ==
    LET size == U64Mul(U32ToU64(nb_instrs), U64(INSTR_SIZE))
    IN  [overflow |-> size.overflow \/ AsUsize(size.val) # size.val,
         instructions |-> [len |-> AsUsize(size.val), seed |-> None]]

\* Program::at with the product wrapped to 32 bits.
Program_at_start_usize32(len, i) ==
    IF len = U64Zero THEN [panic |-> TRUE]
    ELSE CHOOSE r \in
           {IF U64Less(len, U64Add(start, U64(INSTR_SIZE)).val)
            THEN [panic |-> TRUE]
            ELSE [panic |-> FALSE, start |-> start] :
              start \in {U64DivMod(U32ToU64(U64ToU32(
                             U64Mul(U32ToU64(i), U64(INSTR_SIZE)).val)),
                                   len).rem}} : TRUE

\* Program::at: start = (i as usize).wrapping_mul(INSTR_SIZE) % len, and the
\* slice start..start + INSTR_SIZE, which must lie inside the buffer.
Program_at_start(len, i) ==
    IF len = U64Zero THEN [panic |-> TRUE]
    ELSE LET product == AsUsize(U64Mul(U32ToU64(i), U64(INSTR_SIZE)).val)
         IN  CHOOSE r \in
               {IF U64Less(len, U64Add(start, U64(INSTR_SIZE)).val)
                THEN [panic |-> TRUE]
                ELSE [panic |-> FALSE, start |-> start] :
                  start \in {U64DivMod(product, len).rem}} : TRUE

\* The bytes of the buffer from the byte offset start on.
ProgramBytes(instructions, start, n) ==
    IF instructions.seed.some
    THEN hprime_window(instructions.seed.val, U64Small(instructions.len),
                       start + 1, n)
    ELSE Fill(0, n)

Program_at(instructions, i) ==
    CHOOSE r \in
      {IF at.panic THEN at
       ELSE [panic |-> FALSE, start |-> U64Small(at.start),
             chunk |-> ProgramBytes(instructions, U64Small(at.start),
                                    INSTR_SIZE)] :
         at \in {Program_at_start(instructions.len, i)}} : TRUE

\* Program::shuffle: argon2::hprime(&mut self.instructions, seed)
Program_shuffle(instructions, seed) == [instructions EXCEPT !.seed = Some(seed)]

-----------------------------------------------------------------------------
(* Program::at and the ip update of VM::step, over instruction pointers and *)
(* program sizes                                                            *)

\* hash: assert!(nb_loops >= 2); assert!(nb_instrs >= 256)
MIN_NB_LOOPS == 2
MIN_NB_INSTRS == 256

WindowVary == 3

\* Instruction pointers: the first ones, those around 2^32 / 20 and 2^31, and
\* the last ones.
WindowIps ==
    {U32Le(k) : k \in 0..WindowVary}
    \cup {U32Le(214748364 + k) : k \in 0..WindowVary}
    \cup {U32Le(2147483647 - k) : k \in 0..WindowVary}
    \cup {<<0, 0, 0, 128>>, <<254, 255, 255, 255>>, U32Max}

WindowSizes ==
    {U32Le(k) : k \in 1..WindowVary}
    \cup {U32Le(MIN_NB_INSTRS - 1 + k) : k \in 0..WindowVary}
    \cup {U32Max}

InitWindow ==
    /\ GlobalsInit /\ MainInit(MaxCores, DEFAULT_CPU_PERCENTAGE)
    /\ oracle = <<>> /\ overflow_checks = FALSE
    /\ hash_hex = <<>> /\ difficulty_hex = <<>>
    /\ result = Err("") /\ validated = FALSE
    /\ VmIdle
    /\ applied = "none" /\ out = <<>>
    /\ args \in [ip : WindowIps, nb_instrs : WindowSizes]

\* self.program.at(self.ip) on a program of nb_instrs instructions
ApplyProgramAt ==
    /\ applied = "none"
    /\ applied' = "Program_at"
    /\ out' = Program_at_start(Program_new(args.nb_instrs).instructions.len,
                               args.ip)
    /\ UNCHANGED <<serverVars, hash_hex, difficulty_hex, result, validated,
                   args, vmVars>>

\* self.ip = self.ip.wrapping_add(1)
ApplyStepIp ==
    /\ applied = "none"
    /\ applied' = "step_ip"
    /\ out' = U32WrappingInc(args.ip)
    /\ UNCHANGED <<serverVars, hash_hex, difficulty_hex, result, validated,
                   args, vmVars>>

NextWindow == ApplyProgramAt \/ ApplyStepIp
SpecWindow == InitWindow /\ [][NextWindow]_vars

C24_WitnessWrap ==
    applied = "step_ip" /\ args.ip = U32Max /\ out = U32Le(0)

----------------------------------------------------------------------------
(* hashengine.rs: struct VM.  Register i of the code is regs[i + 1].  The   *)
(* fields executed, fetches, seeds and mixes are history: the number of     *)
(* steps taken, the ROM window offset and the 8-byte offset of every memory *)
(* fetch, the seed of every shuffle, and the loop_counter mixed and the     *)
(* prog_seed set by every post_instructions.                                *)

DIGEST_INIT_SIZE == 64
REGS_CONTENT_SIZE == 256

\* VM::new
VM_new(rom, nb_instrs, salt) ==
    CHOOSE vm \in
      {[program |-> Program_new(nb_instrs).instructions,
        regs |-> [r \in 1..NB_REGS |->
                    SubSeq(init_buffer, REGISTER_SIZE * (r - 1) + 1,
                           REGISTER_SIZE * r)],
        ip |-> U32Le(0),
        prog_digest |->
            blake2b_update(Blake2bNew,
                SubSeq(init_buffer, REGS_CONTENT_SIZE + 1,
                       REGS_CONTENT_SIZE + DIGEST_INIT_SIZE)),
        mem_digest |->
            blake2b_update(Blake2bNew,
                SubSeq(init_buffer, REGS_CONTENT_SIZE + DIGEST_INIT_SIZE + 1,
                       REGS_CONTENT_SIZE + 2 * DIGEST_INIT_SIZE)),
        prog_seed |->
            SubSeq(init_buffer, REGS_CONTENT_SIZE + 2 * DIGEST_INIT_SIZE + 1,
                   REGS_CONTENT_SIZE + 3 * DIGEST_INIT_SIZE),
        memory_counter |-> U32Le(0),
        loop_counter |-> U32Le(0),
        executed |-> 0, fetches |-> <<>>, seeds |-> <<>>, mixes |-> <<>>] :
         init_buffer \in
           {hprime(RomDigest(rom) \o salt,
                   REGS_CONTENT_SIZE + 3 * DIGEST_INIT_SIZE)}} : TRUE

\* special1_value64!, special2_value64!: the low 8 bytes of a finalized
\* clone of the digest.
special_value64(digest) == SubSeq(blake2b_finalize(digest), 1, 8)

\* mem_access64!: the VM after the fetch and the value fetched.
\* mem_access64! with the 8-byte window chosen before memory_counter is
\* incremented.
mem_access64_index_first(vm, rom, addr) ==
    LET idx == (vm.memory_counter[1] % (64 \div 8)) * 8
    IN  CHOOSE r \in
          {[vm |-> [vm EXCEPT !.mem_digest = blake2b_update(@, mem),
                              !.memory_counter = U32WrappingInc(@),
                              !.fetches = Append(@, [offset |-> offset,
                                                     idx |-> idx])],
            val |-> SubSeq(mem, idx + 1, idx + 8)] :
             offset \in {RomWindowOffset(rom, U64ToU32(addr))},
             mem \in {rom_at(rom, U64ToU32(addr))}} : TRUE

mem_access64(vm, rom, addr) ==
    LET memory_counter == U32WrappingInc(vm.memory_counter)
        idx == (memory_counter[1] % (64 \div 8)) * 8
    IN  CHOOSE r \in
          {[vm |-> [vm EXCEPT !.mem_digest = blake2b_update(@, mem),
                              !.memory_counter = memory_counter,
                              !.fetches = Append(@, [offset |-> offset,
                                                     idx |-> idx])],
            val |-> SubSeq(mem, idx + 1, idx + 8)] :
             offset \in {RomWindowOffset(rom, U64ToU32(addr))},
             mem \in {rom_at(rom, U64ToU32(addr))}} : TRUE

\* let src = match op { .. }
operand_value(vm, rom, op, r, lit) ==
    CASE op = "Reg" -> [vm |-> vm, val |-> vm.regs[r + 1]]
      [] op = "Memory" -> mem_access64(vm, rom, lit)
      [] op = "Literal" -> [vm |-> vm, val |-> lit]
      [] op = "Special1" -> [vm |-> vm, val |-> special_value64(vm.prog_digest)]
      [] op = "Special2" -> [vm |-> vm, val |-> special_value64(vm.mem_digest)]

\* Op3::Hash(v): chunk v of the Blake2b of src1 and src2.
hash_operator(v, src1, src2) ==
    IF ~(v < 8) THEN [panic |-> TRUE]
    ELSE LET hash_state == blake2b_update(blake2b_update(Blake2bNew, src1), src2)
         IN  [panic |-> FALSE,
              val |-> SubSeq(blake2b_finalize(hash_state), 8 * v + 1, 8 * v + 8)]

\* The match of a 3-operand instruction with Mod giving the remainder.
op3_result_remainder(vm, opcode, src1, src2) ==
    CASE opcode.op = "Add" -> [panic |-> FALSE, val |-> U64Add(src1, src2).val]
      [] opcode.op = "Mul" -> [panic |-> FALSE, val |-> U64Mul(src1, src2).val]
      [] opcode.op = "MulH" -> [panic |-> FALSE, val |-> U64MulHigh(src1, src2)]
      [] opcode.op = "Xor" -> [panic |-> FALSE, val |-> U64Xor(src1, src2)]
      [] opcode.op = "Div" ->
            [panic |-> FALSE,
             val |-> IF src2 = U64Zero THEN special_value64(vm.prog_digest)
                     ELSE U64DivMod(src1, src2).quo]
      [] opcode.op = "Mod" ->
            [panic |-> FALSE,
             val |-> IF src2 = U64Zero THEN special_value64(vm.prog_digest)
                     ELSE U64DivMod(src1, src2).rem]
      [] opcode.op = "And" -> [panic |-> FALSE, val |-> U64And(src1, src2)]
      [] opcode.op = "Hash" -> hash_operator(opcode.v, src1, src2)

\* let result = match operator { .. } of a 3-operand instruction
op3_result(vm, opcode, src1, src2) ==
    CASE opcode.op = "Add" -> [panic |-> FALSE, val |-> U64Add(src1, src2).val]
      [] opcode.op = "Mul" -> [panic |-> FALSE, val |-> U64Mul(src1, src2).val]
      [] opcode.op = "MulH" -> [panic |-> FALSE, val |-> U64MulHigh(src1, src2)]
      [] opcode.op = "Xor" -> [panic |-> FALSE, val |-> U64Xor(src1, src2)]
      [] opcode.op \in {"Div", "Mod"} ->
            [panic |-> FALSE,
             val |-> IF src2 = U64Zero THEN special_value64(vm.prog_digest)
                     ELSE U64DivMod(src1, src2).quo]
      [] opcode.op = "And" -> [panic |-> FALSE, val |-> U64And(src1, src2)]
      [] opcode.op = "Hash" -> hash_operator(opcode.v, src1, src2)

\* let result = match operator { .. } of a 2-operand instruction
op2_result(opcode, src1, r1) ==
    CASE opcode.op = "Neg" -> U64Not(src1)
      [] opcode.op = "RotL" -> rotate_left(src1, r1)
      [] opcode.op = "RotR" -> rotate_right(src1, r1)
      [] opcode.op = "ISqrt" -> isqrt(src1)
      [] opcode.op = "BitRev" -> reverse_bits(src1)

\* vm.regs[r3 as usize] = result, for a 3-operand instruction whose operands
\* evaluated to s1 and then s2.
write_result3(s1, s2, d) ==
    CHOOSE r \in
      {IF res.panic THEN [panic |-> TRUE]
       ELSE [panic |-> FALSE,
             vm |-> [s2.vm EXCEPT !.regs[d.r3 + 1] = res.val]] :
         res \in {op3_result(s2.vm, d.opcode, s1.val, s2.val)}} : TRUE

\* src2 is evaluated on the VM that the evaluation of src1 left.
with_src2(s1, rom, d) ==
    CHOOSE r \in {write_result3(s1, s2, d) :
                    s2 \in {operand_value(s1.vm, rom, d.op2, d.r2, d.lit2)}} :
        TRUE

\* The match on the opcode with op2 evaluated, and its value dropped, by the
\* 2-operand instructions too.
execute_decoded_both_operands(vm, rom, d) ==
    IF d.opcode.arity = 3
    THEN CHOOSE r \in {with_src2(s1, rom, d) :
                         s1 \in {operand_value(vm, rom, d.op1, d.r1, d.lit1)}} :
            TRUE
    ELSE CHOOSE r \in
           {[panic |-> FALSE,
             vm |-> [operand_value(s1.vm, rom, d.op2, d.r2, d.lit2).vm
                       EXCEPT !.regs[d.r3 + 1] =
                                 op2_result(d.opcode, s1.val, d.r1)]] :
              s1 \in {operand_value(vm, rom, d.op1, d.r1, d.lit1)}} : TRUE

\* The match on the opcode: the VM with r3 written, or a panic.
execute_decoded(vm, rom, d) ==
    IF d.opcode.arity = 3
    THEN CHOOSE r \in {with_src2(s1, rom, d) :
                         s1 \in {operand_value(vm, rom, d.op1, d.r1, d.lit1)}} :
            TRUE
    ELSE CHOOSE r \in
           {[panic |-> FALSE,
             vm |-> [s1.vm EXCEPT !.regs[d.r3 + 1] =
                        op2_result(d.opcode, s1.val, d.r1)]] :
              s1 \in {operand_value(vm, rom, d.op1, d.r1, d.lit1)}} : TRUE

\* The instruction at.chunk decoded to d, with
\* vm.prog_digest.update(&prog_chunk) before the match on the opcode.
execute_chunk_absorb_first(vm, rom, at, d) ==
    IF d.panic THEN [panic |-> TRUE]
    ELSE CHOOSE r \in
           {execute_decoded(absorbed, rom, d) :
              absorbed \in {[vm EXCEPT !.prog_digest =
                                blake2b_update(@, at.chunk)]}} : TRUE

\* The instruction at.chunk decoded to d: executed, then
\* vm.prog_digest.update(&prog_chunk).
execute_chunk(vm, rom, at, d) ==
    IF d.panic THEN [panic |-> TRUE]
    ELSE CHOOSE r \in
           {IF done.panic THEN done
            ELSE [panic |-> FALSE,
                  vm |-> [done.vm EXCEPT !.prog_digest =
                            blake2b_update(@, at.chunk)]] :
              done \in {execute_decoded(vm, rom, d)}} : TRUE

\* execute_one_instruction
execute_one_instruction(vm, rom) ==
    CHOOSE r \in
      {IF at.panic THEN [panic |-> TRUE]
       ELSE CHOOSE e \in {execute_chunk(vm, rom, at, d) :
                            d \in {decode_instruction(at.chunk)}} : TRUE :
         at \in {Program_at(vm.program, vm.ip)}} : TRUE

\* VM::step
VM_step(vm, rom) ==
    CHOOSE r \in
      {IF done.panic THEN done
       ELSE [panic |-> FALSE,
             vm |-> [done.vm EXCEPT !.ip = U32WrappingInc(@),
                                    !.executed = @ + 1]] :
         done \in {execute_one_instruction(vm, rom)}} : TRUE

\* acc.wrapping_add of registers lo..hi in order, the lower half first.
RECURSIVE SumRegsRange(_, _, _, _)
SumRegsHalves(regs, lo, mid, hi, acc) ==
    CHOOSE res \in {SumRegsRange(regs, m + 1, hi, n) :
                       n \in {SumRegsRange(regs, lo, mid, acc)}, m \in {mid}} :
        TRUE
SumRegsRange(regs, lo, hi, acc) ==
    IF lo > hi THEN acc
    ELSE IF lo = hi THEN U64Add(acc, regs[lo]).val
    ELSE SumRegsHalves(regs, lo, (lo + hi) \div 2, hi, acc)

SumRegsFrom(regs, r, acc) == SumRegsRange(regs, r, NB_REGS, acc)

\* VM::sum_regs
sum_regs(vm) == SumRegsFrom(vm.regs, 1, U64Zero)

\* The register at index r xored with its 8 bytes of every 256-byte chunk of
\* mixing_out, from chunk c on.
MixChunk(reg, mixing_out, r, c) ==
    LET first == (c - 1) * NB_REGS * REGISTER_SIZE + (r - 1) * REGISTER_SIZE
    IN  U64Xor(reg, SubSeq(mixing_out, first + 1, first + 8))

RECURSIVE MixRange(_, _, _, _, _)
MixHalves(reg, mixing_out, r, lo, mid, hi) ==
    CHOOSE res \in {MixRange(n, mixing_out, r, m + 1, hi) :
                       n \in {MixRange(reg, mixing_out, r, lo, mid)},
                       m \in {mid}} : TRUE
MixRange(reg, mixing_out, r, lo, hi) ==
    IF lo > hi THEN reg
    ELSE IF lo = hi THEN MixChunk(reg, mixing_out, r, lo)
    ELSE MixHalves(reg, mixing_out, r, lo, (lo + hi) \div 2, hi)

MixRegister(reg, mixing_out, r, c) == MixRange(reg, mixing_out, r, c, 32)

\* The clones of the two digests with the register sum absorbed.
PostStates(vm) ==
    CHOOSE st \in
      {[prog_state |-> blake2b_update(vm.prog_digest, sum),
        mem_state |-> blake2b_update(vm.mem_digest, sum)] :
         sum \in {sum_regs(vm)}} : TRUE

\* The registers xored with the 32 chunks of mixing_out.
MixedRegs(vm, st) ==
    CHOOSE regs \in
      {[r \in 1..NB_REGS |-> MixRegister(vm.regs[r], mixing_out, r, 1)] :
         mixing_out \in
           {hprime(blake2b_finalize(blake2b_update(blake2b_update(
                       blake2b_update(Blake2bNew,
                                      blake2b_finalize(st.prog_state)),
                       blake2b_finalize(st.mem_state)), vm.loop_counter)),
                   NB_REGS * REGISTER_SIZE * 32)}} : TRUE

\* The VM after post_instructions, given the two clones.
PostMixed(vm, st) ==
    [vm EXCEPT !.regs = MixedRegs(vm, st),
               !.prog_seed = blake2b_finalize(st.prog_state),
               !.loop_counter = U32WrappingInc(@),
               !.mixes = Append(@, [loop_counter |-> vm.loop_counter,
                                    seed |-> blake2b_finalize(st.prog_state)])]

\* VM::post_instructions with the register sum absorbed by the live digests.
VM_post_instructions_live(vm) ==
    CHOOSE next \in
      {[PostMixed(vm, st) EXCEPT !.prog_digest = st.prog_state,
                                 !.mem_digest = st.mem_state] :
         st \in {PostStates(vm)}} : TRUE

\* VM::post_instructions without the increment of loop_counter.
VM_post_instructions_same_counter(vm) ==
    CHOOSE next \in
      {[PostMixed(vm, st) EXCEPT !.loop_counter = vm.loop_counter] :
         st \in {PostStates(vm)}} : TRUE

\* VM::post_instructions
VM_post_instructions(vm) ==
    CHOOSE next \in {PostMixed(vm, st) : st \in {PostStates(vm)}} : TRUE

\* context.update of registers lo..hi in order, the lower half first.
RECURSIVE AbsorbRegsRange(_, _, _, _)
AbsorbRegsHalves(context, regs, lo, mid, hi) ==
    CHOOSE res \in {AbsorbRegsRange(n, regs, m + 1, hi) :
                       n \in {AbsorbRegsRange(context, regs, lo, mid)},
                       m \in {mid}} : TRUE
AbsorbRegsRange(context, regs, lo, hi) ==
    IF lo > hi THEN context
    ELSE IF lo = hi THEN blake2b_update(context, regs[lo])
    ELSE AbsorbRegsHalves(context, regs, lo, (lo + hi) \div 2, hi)

AbsorbRegs(context, regs, r) == AbsorbRegsRange(context, regs, r, NB_REGS)

\* VM::finalize
VM_finalize(vm) ==
    LET prog_digest == blake2b_finalize(vm.prog_digest)
        mem_digest == blake2b_finalize(vm.mem_digest)
        context == blake2b_update(blake2b_update(blake2b_update(
                       Blake2bNew, prog_digest), mem_digest), vm.memory_counter)
    IN  blake2b_finalize(AbsorbRegs(context, vm.regs, 1))

-----------------------------------------------------------------------------
(* hashengine.rs: hash(salt, rom, nb_loops, nb_instrs), one step at a time *)

notVms == <<serverVars, hash_hex, difficulty_hex, result, validated, applied,
            args, out, usize_bits, spinVars>>

\* assert!(nb_loops >= 2); assert!(nb_instrs >= 256);
\* let mut vm = VM::new(&rom.digest, nb_instrs, salt);
HashStart(v, salt, rom, nb_loops, nb_instrs) ==
    /\ vms[v].pc = "none"
    /\ vms' = [vms EXCEPT ![v] =
          IF ~(nb_loops >= MIN_NB_LOOPS) \/ ~(nb_instrs >= MIN_NB_INSTRS)
          THEN [pc |-> "panicked", salt |-> salt, rom |-> rom,
                nb_loops |-> nb_loops, nb_instrs |-> nb_instrs]
          ELSE [pc |-> "shuffle", salt |-> salt, rom |-> rom,
                nb_loops |-> nb_loops, nb_instrs |-> nb_instrs,
                loops_done |-> 0, steps_done |-> 0,
                vm |-> VM_new(rom, U32Le(nb_instrs), salt)]]
    /\ UNCHANGED notVms

\* VM::execute: self.program.shuffle(&self.prog_seed)
VmShuffle(v) ==
    /\ vms[v].pc = "shuffle"
    /\ vms' = [vms EXCEPT ![v] =
          [@ EXCEPT !.pc = "step", !.steps_done = 0,
                    !.vm = [@ EXCEPT !.program = Program_shuffle(@, vms[v].vm.prog_seed),
                                     !.seeds = Append(@, vms[v].vm.prog_seed)]]]
    /\ UNCHANGED notVms

\* VM::execute's step with memory_counter a counter that all the hash calls
\* share: the step starts from the number of fetches made by all of them.
VmStep_shared_counter(v) ==
    /\ vms[v].pc = "step"
    /\ \E shared \in
          {U32Le(Len(vms[v].vm.fetches) + others) :
             others \in {IF vms[w].pc \in {"shuffle", "step", "post",
                                           "finalize", "done"}
                         THEN Len(vms[w].vm.fetches) ELSE 0 :
                           w \in VMs \ {v}}} :
       \E done \in {VM_step([vms[v].vm EXCEPT !.memory_counter = shared],
                             vms[v].rom)} :
          vms' = [vms EXCEPT ![v] =
             IF done.panic THEN [@ EXCEPT !.pc = "panicked"]
             ELSE [@ EXCEPT !.vm = done.vm,
                            !.steps_done = @ + 1,
                            !.pc = IF vms[v].steps_done + 1 = vms[v].nb_instrs
                                   THEN "post" ELSE "step"]]
    /\ UNCHANGED notVms

\* VM::execute: for _ in 0..instr { self.step(rom) }
VmStep(v) ==
    /\ vms[v].pc = "step"
    /\ \E done \in {VM_step(vms[v].vm, vms[v].rom)} :
          vms' = [vms EXCEPT ![v] =
             IF done.panic THEN [@ EXCEPT !.pc = "panicked"]
             ELSE [@ EXCEPT !.vm = done.vm,
                            !.steps_done = @ + 1,
                            !.pc = IF vms[v].steps_done + 1 = vms[v].nb_instrs
                                   THEN "post" ELSE "step"]]
    /\ UNCHANGED notVms

\* VM::execute: self.post_instructions(), and the loop of hash
VmPost(v) ==
    /\ vms[v].pc = "post"
    /\ vms' = [vms EXCEPT ![v] =
          [@ EXCEPT !.vm = VM_post_instructions(@),
                    !.loops_done = @ + 1,
                    !.pc = IF vms[v].loops_done + 1 = vms[v].nb_loops
                           THEN "finalize" ELSE "shuffle"]]
    /\ UNCHANGED notVms

\* vm.finalize()
VmFinalize(v) ==
    /\ vms[v].pc = "finalize"
    /\ vms' = [vms EXCEPT ![v] =
          [pc |-> "done", salt |-> @.salt, rom |-> @.rom,
           nb_loops |-> @.nb_loops, nb_instrs |-> @.nb_instrs,
           loops_done |-> @.loops_done, vm |-> @.vm,
           digest |-> VM_finalize(@.vm)]]
    /\ UNCHANGED notVms

----------------------------------------------------------------------------
(* One hash call on a program whose first instructions are chosen *)

MaxLoops == 2

\* The 20 bytes of an instruction.
Ins(opcode, ops, r1, r2, r3, lit1, lit2) ==
    <<opcode, ops, (r1 * 1024 + r2 * 32 + r3) \div 256,
      (r1 * 1024 + r2 * 32 + r3) % 256>> \o lit1 \o lit2

\* Div and Mod by a literal 0 and by literals and registers that are not 0,
\* a Memory operand followed by Special2, a 2-operand instruction whose op2
\* nibble says Memory, Special1 followed by Memory, Special2 alone, a Memory
\* operand added to a literal 0.
ChosenProgram ==
    Ins(100, 153, 0, 0, 1, U64(100), U64(0))
    \o Ins(120, 153, 0, 0, 2, U64(100), U64(7))
    \o Ins(100, 153, 0, 0, 3, Fill(255, 8), U64(3))
    \o Ins(150, 94, 0, 0, 4, <<1, 2, 3, 4, 9, 9, 9, 9>>, U64(0))
    \o Ins(230, 5, 2, 0, 5, U64(0), U64(77))
    \o Ins(0, 213, 0, 0, 6, U64(0), <<255, 255, 255, 255, 0, 0, 0, 0>>)
    \o Ins(120, 0, 3, 0, 7, U64(0), U64(0))
    \o Ins(120, 9, 3, 0, 8, U64(0), U64(0))
    \o Ins(190, 229, 0, 0, 9, U64(0), U64(5))
    \o Ins(110, 153, 0, 0, 10, U64(7), U64(100))
    \o Ins(0, 89, 0, 0, 11, <<7, 0, 0, 0, 1, 1, 1, 1>>, U64(0))

VmSalt == <<1>>
VmRom == RomOf(KeyA)

\* The oracle under which the first shuffle of the hash of VmSalt yields
\* ChosenProgram followed by the bytes of the mixing function.
ChosenOracle ==
    [pt \in {<<"hprime",
               Strict([j \in 1..DIGEST_INIT_SIZE |->
                   ExpandByte(AbsorbFrom(7, RomDigest(VmRom) \o VmSalt, 1),
                              REGS_CONTENT_SIZE + 2 * DIGEST_INIT_SIZE + j)]),
               MIN_NB_INSTRS * INSTR_SIZE>>} |-> ChosenProgram]

InitVM ==
    /\ GlobalsInit /\ MainInit(MaxCores, DEFAULT_CPU_PERCENTAGE)
    /\ PureIdle
    /\ oracle = ChosenOracle /\ overflow_checks = FALSE
    /\ hash_hex = <<>> /\ difficulty_hex = <<>>
    /\ result = Err("") /\ validated = FALSE
    /\ VmIdle

NextVM ==
    \/ \E nb_loops \in (MIN_NB_LOOPS - 1)..MaxLoops,
          nb_instrs \in {MIN_NB_INSTRS - 1, MIN_NB_INSTRS} :
          HashStart("vm1", VmSalt, VmRom, nb_loops, nb_instrs)
    \/ VmShuffle("vm1")
    \/ VmStep("vm1")
    \/ VmPost("vm1")
    \/ VmFinalize("vm1")

SpecVM == InitVM /\ [][NextVM]_vars

\* What the hash call of v has done so far, from its position.
LoopShape(h) ==
    /\ h.loops_done <= h.nb_loops
    /\ h.pc = "step" => h.steps_done < h.nb_instrs
    /\ h.pc = "post" => h.steps_done = h.nb_instrs
    /\ h.pc \in {"finalize", "done"} => h.loops_done = h.nb_loops
    /\ h.pc \in {"shuffle", "step", "post"} => h.loops_done < h.nb_loops
    /\ Len(h.vm.seeds) =
          h.loops_done + (IF h.pc \in {"step", "post"} THEN 1 ELSE 0)
    /\ h.vm.executed =
          h.loops_done * h.nb_instrs
            + (IF h.pc \in {"step", "post"} THEN h.steps_done ELSE 0)
    /\ Len(h.vm.mixes) = h.loops_done
    /\ \A k \in 1..Len(h.vm.mixes) :
          /\ h.vm.mixes[k].loop_counter = U32Le(k - 1)
          /\ k < Len(h.vm.seeds) => h.vm.seeds[k + 1] = h.vm.mixes[k].seed
    /\ h.vm.mixes # <<>> => h.vm.prog_seed = h.vm.mixes[Len(h.vm.mixes)].seed
    /\ h.pc \in {"step", "post"} =>
          h.vm.program.seed = Some(h.vm.seeds[Len(h.vm.seeds)])
    /\ h.vm.loop_counter = U32Le(h.loops_done)
    /\ h.vm.ip = U32Le(h.vm.executed)
    /\ h.pc \in {"finalize", "done"} =>
          /\ h.vm.loop_counter = U32Le(h.nb_loops)
          /\ h.vm.ip = U32Le(h.nb_loops * h.nb_instrs)

\* One step of the hash call of v: the shuffle takes the current prog_seed,
\* the steps are counted up to nb_instrs, the post-mix sets prog_seed to the
\* finalized clone of prog_digest with the register sum.
LoopStep(h, g) ==
    /\ h.pc = "shuffle" =>
          /\ g.pc = "step" /\ g.steps_done = 0
          /\ g.vm.program.seed = Some(h.vm.prog_seed)
          /\ g.vm.seeds = Append(h.vm.seeds, h.vm.prog_seed)
    /\ h.pc = "step" =>
          /\ g.pc = IF h.steps_done + 1 = h.nb_instrs THEN "post" ELSE "step"
          /\ g.vm.executed = h.vm.executed + 1
          /\ g.loops_done = h.loops_done
    /\ h.pc = "post" =>
          /\ g.pc = IF h.loops_done + 1 = h.nb_loops
                    THEN "finalize" ELSE "shuffle"
          /\ g.vm.executed = h.vm.executed
          /\ g.vm.prog_seed =
                blake2b_finalize(blake2b_update(h.vm.prog_digest,
                                                sum_regs(h.vm)))
          /\ g.vm.loop_counter = U32WrappingInc(h.vm.loop_counter)
    /\ h.pc = "finalize" =>
          /\ g.pc = "done" /\ g.vm = h.vm
          /\ g.digest = VM_finalize(h.vm)

VmRunning(h) == h.pc \in {"shuffle", "step", "post", "finalize", "done"}

\* C25: a hash call runs nb_loops loops of one shuffle from the current
\* prog_seed, nb_instrs steps and one post-mix, then finalizes once; post-mix
\* number k mixes loop_counter = k, sets prog_seed to the snapshot of the
\* program digest and adds 1 to loop_counter, so that at finalize
\* loop_counter = nb_loops and ip = nb_loops * nb_instrs.
C25_LoopStructure ==
    [][\A v \in VMs :
         /\ VmRunning(vms[v]) => LoopShape(vms[v])
         /\ VmRunning(vms'[v]) => LoopShape(vms'[v])
         /\ VmRunning(vms[v]) /\ vms'[v] # vms[v] => LoopStep(vms[v], vms'[v])]_vars

C25_Witness ==
    /\ vms["vm1"].pc = "done"
    /\ vms["vm1"].nb_loops = MIN_NB_LOOPS
    /\ vms["vm1"].vm.loop_counter = U32Le(MIN_NB_LOOPS)
    /\ vms["vm1"].vm.ip = U32Le(MIN_NB_LOOPS * MIN_NB_INSTRS)
    /\ Len(vms["vm1"].vm.seeds) = MIN_NB_LOOPS

\* The instruction the next step of the hash call h executes, and the values
\* of its operands: src1 on the VM as it is, src2 on the VM that the
\* evaluation of src1 leaves.
Fetched(h) ==
    CHOOSE f \in
      {[chunk |-> at.chunk, start |-> at.start,
        d |-> decode_instruction(at.chunk)] :
         at \in {Program_at(h.vm.program, h.vm.ip)}} : TRUE

Src1(h, d) == operand_value(h.vm, h.rom, d.op1, d.r1, d.lit1)
Src2(h, d) == operand_value(Src1(h, d).vm, h.rom, d.op2, d.r2, d.lit2)

\* q = floor(a / b) for b # 0: q * b <= a < q * b + b.
IsQuotient(q, a, b) ==
    \E product \in {U64Mul(q, b)} :
       /\ ~product.overflow
       /\ ~U64Less(a, product.val)
       /\ U64Less(U64WrappingSub(a, product.val), b)

\* A Div or Mod instruction d taking the hash call from h to g.
DivStep(h, g, d) ==
    \E src1 \in {Src1(h, d).val}, src2 \in {Src2(h, d).val} :
       /\ g.pc # "panicked"
       /\ IF src2 = U64Zero
          THEN g.vm.regs[d.r3 + 1] =
                 SubSeq(blake2b_finalize(h.vm.prog_digest), 1, 8)
          ELSE IsQuotient(g.vm.regs[d.r3 + 1], src1, src2)

\* C26: Div and Mod never fault; with src2 = 0 the result is the Special1
\* value, the low 8 bytes of a snapshot of the program digest, and otherwise
\* both give the quotient floor(src1 / src2).
C26_DivModQuotient ==
    [][\A v \in VMs :
         vms[v].pc = "step" /\ vms'[v] # vms[v] =>
           \E f \in {Fetched(vms[v])} :
              f.d.opcode.op \in {"Div", "Mod"} =>
                 DivStep(vms[v], vms'[v], f.d)]_vars

C26_Witness ==
    /\ vms["vm1"].pc = "step" /\ vms["vm1"].vm.executed = 8
    /\ vms["vm1"].vm.regs[2] =
          SubSeq(blake2b_finalize(
                   VM_new(VmRom, U32Le(MIN_NB_INSTRS), VmSalt).prog_digest), 1, 8)
    /\ vms["vm1"].vm.regs[3] = U64(14)
    /\ vms["vm1"].vm.regs[4] = Fill(85, 8)
    /\ vms["vm1"].vm.regs[9] # vms["vm1"].vm.regs[2]

\* The literals of the Memory operands the instruction d evaluates, in order.
MemoryOperands(d) ==
    (IF d.op1 = "Memory" THEN <<d.lit1>> ELSE <<>>)
    \o (IF d.opcode.arity = 3 /\ d.op2 = "Memory" THEN <<d.lit2>> ELSE <<>>)

\* The memory fetches of a hash call so far.
FetchCount(h) ==
    /\ h.vm.memory_counter = U32Le(Len(h.vm.fetches))
    /\ h.vm.mem_digest.n = DIGEST_INIT_SIZE + 64 * Len(h.vm.fetches)
    /\ \A n \in 1..Len(h.vm.fetches) : h.vm.fetches[n].idx = 8 * (n % 8)

\* The fetches of the step from h to g that executes d: one per Memory
\* operand, of the ROM window addressed by the low 32 bits of the literal,
\* all 64 bytes of which mem_digest absorbs.
FetchStep(h, g, d) ==
    \E lits \in {MemoryOperands(d)} :
       /\ Len(g.vm.fetches) = Len(h.vm.fetches) + Len(lits)
       /\ \A k \in 1..Len(lits) :
             g.vm.fetches[Len(h.vm.fetches) + k].offset =
                RomWindowOffset(h.rom, SubSeq(lits[k], 1, 4))
       /\ g.vm.mem_digest =
             IF Len(lits) = 0 THEN h.vm.mem_digest
             ELSE IF Len(lits) = 1
             THEN blake2b_update(h.vm.mem_digest,
                                 rom_at(h.rom, SubSeq(lits[1], 1, 4)))
             ELSE blake2b_update(
                    blake2b_update(h.vm.mem_digest,
                                   rom_at(h.rom, SubSeq(lits[1], 1, 4))),
                    rom_at(h.rom, SubSeq(lits[2], 1, 4)))
       /\ d.opcode.op = "Add" /\ d.op1 = "Memory" /\ d.op2 = "Literal" =>
             g.vm.regs[d.r3 + 1] =
                U64Add(SubSeq(rom_at(h.rom, SubSeq(d.lit1, 1, 4)),
                              8 * (Len(g.vm.fetches) % 8) + 1,
                              8 * (Len(g.vm.fetches) % 8) + 8), d.lit2).val

\* C27: each Memory operand reads the ROM window addressed by the low 32
\* bits of its literal, absorbs its 64 bytes into mem_digest and adds 1 to
\* memory_counter, wrapping, before the 8 bytes at (memory_counter mod 8) * 8
\* are taken: fetch number n reads offset 8 * (n mod 8), and memory_counter
\* is the number of Memory operands evaluated.
C27_MemoryFetch ==
    [][\A v \in VMs :
         /\ U32WrappingInc(U32Max) = U32Le(0)
         /\ VmRunning(vms[v]) => FetchCount(vms[v])
         /\ VmRunning(vms'[v]) => FetchCount(vms'[v])
         /\ vms[v].pc = "step" /\ vms'[v] # vms[v] =>
               \E f \in {Fetched(vms[v])} : FetchStep(vms[v], vms'[v], f.d)
         /\ vms[v].pc \in {"shuffle", "post", "finalize"} /\ VmRunning(vms'[v]) =>
               vms'[v].vm.fetches = vms[v].vm.fetches]_vars

C27_Witness ==
    /\ vms["vm1"].pc = "done"
    /\ Len(vms["vm1"].vm.fetches) > 16
    /\ vms["vm1"].vm.memory_counter = U32Le(Len(vms["vm1"].vm.fetches))
    /\ vms["vm1"].vm.fetches[1] = [offset |-> 32832, idx |-> 8]
    /\ vms["vm1"].vm.fetches[8].idx = 0
    /\ vms["vm1"].vm.fetches[2].offset = 65536 - 64

\* The step from h to g that executes d writes register r3 and no other; a
\* 2-operand instruction computes it from src1 alone and fetches for op1 only.
WriteStep(h, g, d) ==
    /\ g.pc # "panicked"
    /\ \A r \in 1..NB_REGS : r # d.r3 + 1 => g.vm.regs[r] = h.vm.regs[r]
    /\ DOMAIN g.vm.regs = 1..NB_REGS
    /\ d.opcode.arity = 2 =>
          /\ g.vm.regs[d.r3 + 1] = op2_result(d.opcode, Src1(h, d).val, d.r1)
          /\ g.vm.memory_counter = Src1(h, d).vm.memory_counter
          /\ g.vm.mem_digest = Src1(h, d).vm.mem_digest
          /\ d.op1 # "Memory" =>
                /\ g.vm.memory_counter = h.vm.memory_counter
                /\ g.vm.mem_digest = h.vm.mem_digest
                /\ g.vm.fetches = h.vm.fetches
    /\ d.opcode.arity = 3 =>
          \E res \in {op3_result(Src2(h, d).vm, d.opcode,
                                 Src1(h, d).val, Src2(h, d).val)} :
             ~res.panic /\ g.vm.regs[d.r3 + 1] = res.val

\* C28: one instruction writes register r3 and leaves the other 31 as they
\* were; a 2-operand instruction takes its source from op1 and never evaluates
\* op2, so that an op2 nibble of kind Memory changes neither memory_counter
\* nor mem_digest.
C28_OneRegisterWritten ==
    [][\A v \in VMs :
         vms[v].pc = "step" /\ vms'[v] # vms[v] =>
           \E f \in {Fetched(vms[v])} : WriteStep(vms[v], vms'[v], f.d)]_vars

\* After the Neg of register 2 whose op2 nibble says Memory: one fetch so
\* far, that of the Xor before it.
C28_Witness ==
    /\ vms["vm1"].pc = "step" /\ vms["vm1"].vm.executed = 5
    /\ vms["vm1"].vm.regs[6] = U64Not(U64(14))
    /\ vms["vm1"].vm.regs[3] = U64(14)
    /\ Len(vms["vm1"].vm.fetches) = 1
    /\ vms["vm1"].vm.memory_counter = U32Le(1)

\* The 8 bytes a Memory operand with literal lit takes when memory_counter is
\* counter before the fetch.
FetchedValue(rom, lit, counter) ==
    LET idx == (U32WrappingInc(counter)[1] % 8) * 8
    IN  SubSeq(rom_at(rom, SubSeq(lit, 1, 4)), idx + 1, idx + 8)

\* The value of an operand of kind op read when the digests are prog_digest
\* and mem_digest and memory_counter is counter.
OperandRead(h, op, r, lit, prog_digest, mem_digest, counter) ==
    CASE op = "Reg" -> h.vm.regs[r + 1]
      [] op = "Memory" ->
            CHOOSE val \in {FetchedValue(h.rom, lit, counter)} : TRUE
      [] op = "Literal" -> lit
      [] op = "Special1" -> SubSeq(blake2b_finalize(prog_digest), 1, 8)
      [] op = "Special2" -> SubSeq(blake2b_finalize(mem_digest), 1, 8)

\* mem_digest and memory_counter after op1 of d has been evaluated.
AfterOp1(h, d) ==
    IF d.op1 = "Memory"
    THEN [mem_digest |-> blake2b_update(h.vm.mem_digest,
                                        rom_at(h.rom, SubSeq(d.lit1, 1, 4))),
          memory_counter |-> U32WrappingInc(h.vm.memory_counter)]
    ELSE [mem_digest |-> h.vm.mem_digest,
          memory_counter |-> h.vm.memory_counter]

\* The step from h to g that executes the instruction f: src1 and the
\* substitute of a division by 0 are read from prog_digest as h has it, src2
\* from mem_digest as the evaluation of op1 left it, and prog_digest absorbs
\* the 20 bytes of the instruction.
OrderedStep(h, g, f) ==
    \E src1 \in {OperandRead(h, f.d.op1, f.d.r1, f.d.lit1, h.vm.prog_digest,
                              h.vm.mem_digest, h.vm.memory_counter)},
       mid \in {AfterOp1(h, f.d)} :
       /\ g.pc # "panicked"
       /\ h.vm.prog_digest.n = DIGEST_INIT_SIZE + INSTR_SIZE * h.vm.executed
       /\ g.vm.prog_digest = blake2b_update(h.vm.prog_digest, f.chunk)
       /\ f.d.opcode.arity = 2 =>
             g.vm.regs[f.d.r3 + 1] = op2_result(f.d.opcode, src1, f.d.r1)
       /\ f.d.opcode.arity = 3 =>
             \E src2 \in {OperandRead(h, f.d.op2, f.d.r2, f.d.lit2,
                                      h.vm.prog_digest, mid.mem_digest,
                                      mid.memory_counter)} :
                g.vm.regs[f.d.r3 + 1] =
                   IF f.d.opcode.op \in {"Div", "Mod"} /\ src2 = U64Zero
                   THEN SubSeq(blake2b_finalize(h.vm.prog_digest), 1, 8)
                   ELSE op3_result(h.vm, f.d.opcode, src1, src2).val

\* C29: an instruction evaluates op1, then op2, computes, writes r3 and only
\* then absorbs its 20 bytes into prog_digest: a Special1 value read by
\* instruction i is that of the instructions before i, and a Special2 value
\* read as op2 already has the Memory fetch of op1.
C29_InstructionOrder ==
    [][\A v \in VMs :
         vms[v].pc = "step" /\ vms'[v] # vms[v] =>
           \E f \in {Fetched(vms[v])} : OrderedStep(vms[v], vms'[v], f)]_vars

\* After the Div by a literal 0, the Xor of a Memory operand and Special2 and
\* the Add of Special1 and a Memory operand.
C29_Witness ==
    \E first \in {VM_new(VmRom, U32Le(MIN_NB_INSTRS), VmSalt)},
       mem \in {rom_at(VmRom, <<1, 2, 3, 4>>)} :
       /\ vms["vm1"].pc = "step" /\ vms["vm1"].vm.executed = 6
       /\ Len(vms["vm1"].vm.fetches) = 2
       /\ vms["vm1"].vm.regs[2] =
             SubSeq(blake2b_finalize(first.prog_digest), 1, 8)
       /\ vms["vm1"].vm.regs[2] #
             SubSeq(blake2b_finalize(
                      blake2b_update(first.prog_digest,
                                     SubSeq(ChosenProgram, 1, INSTR_SIZE))), 1, 8)
       /\ vms["vm1"].vm.regs[5] =
             U64Xor(SubSeq(mem, 9, 16),
                    SubSeq(blake2b_finalize(
                             blake2b_update(first.mem_digest, mem)), 1, 8))
       /\ vms["vm1"].vm.regs[5] #
             U64Xor(SubSeq(mem, 9, 16),
                    SubSeq(blake2b_finalize(first.mem_digest), 1, 8))
       /\ vms["vm1"].vm.prog_digest.n = DIGEST_INIT_SIZE + 6 * INSTR_SIZE

\* The program digest that absorbs, after digest, the instructions at
\* ip = lo..hi of the hash call h in this order, each read from the program
\* as the shuffle of its loop left it.
RECURSIVE ReplayChunks(_, _, _, _)
ReplayChunkHalves(h, digest, lo, mid, hi) ==
    CHOOSE r \in {ReplayChunks(h, left, m + 1, hi) :
                     left \in {ReplayChunks(h, digest, lo, mid)}, m \in {mid}} :
        TRUE
ReplayChunks(h, digest, lo, hi) ==
    IF lo > hi THEN digest
    ELSE IF lo = hi
    THEN blake2b_update(digest,
           Program_at([len |-> h.vm.program.len,
                       seed |-> Some(h.vm.seeds[lo \div h.nb_instrs + 1])],
                      U32Le(lo)).chunk)
    ELSE ReplayChunkHalves(h, digest, lo, (lo + hi) \div 2, hi)

\* The memory digest that absorbs, after digest, the ROM windows of fetches
\* lo..hi of the hash call h in this order.
RECURSIVE ReplayWindows(_, _, _, _)
ReplayWindowHalves(h, digest, lo, mid, hi) ==
    CHOOSE r \in {ReplayWindows(h, left, m + 1, hi) :
                     left \in {ReplayWindows(h, digest, lo, mid)}, m \in {mid}} :
        TRUE
ReplayWindows(h, digest, lo, hi) ==
    IF lo > hi THEN digest
    ELSE IF lo = hi
    THEN blake2b_update(digest, RomWindow(h.rom, h.vm.fetches[lo].offset))
    ELSE ReplayWindowHalves(h, digest, lo, (lo + hi) \div 2, hi)

\* What the two digests of the hash call h have absorbed when it finalizes.
DigestsAtFinalize(h) ==
    \E first \in {VM_new(h.rom, U32Le(h.nb_instrs), h.salt)} :
       /\ first.prog_digest.n = DIGEST_INIT_SIZE
       /\ first.mem_digest.n = DIGEST_INIT_SIZE
       /\ h.vm.executed = h.nb_loops * h.nb_instrs
       /\ h.vm.prog_digest =
             ReplayChunks(h, first.prog_digest, 0, h.vm.executed - 1)
       /\ h.vm.mem_digest =
             ReplayWindows(h, first.mem_digest, 1, Len(h.vm.fetches))

\* One step of the hash call from h to g: the live digests change by the
\* instruction chunk and the fetched windows only.
DigestStep(h, g) ==
    /\ h.pc \in {"shuffle", "post"} =>
          /\ g.vm.prog_digest = h.vm.prog_digest
          /\ g.vm.mem_digest = h.vm.mem_digest
    /\ h.pc = "step" =>
          \E f \in {Fetched(h)} :
             /\ g.vm.prog_digest = blake2b_update(h.vm.prog_digest, f.chunk)
             /\ g.vm.mem_digest =
                   ReplayWindows(g, h.vm.mem_digest, Len(h.vm.fetches) + 1,
                                 Len(g.vm.fetches))
             /\ Len(g.vm.fetches) - Len(h.vm.fetches) =
                   Len(MemoryOperands(f.d))
    /\ h.pc = "finalize" =>
          /\ DigestsAtFinalize(h)
          /\ g.vm.prog_digest = h.vm.prog_digest
          /\ g.vm.mem_digest = h.vm.mem_digest

\* C30: reading Special1 or Special2 and the post-mix leave the live
\* prog_digest and mem_digest as they were, and neither is ever reset: at
\* finalize prog_digest has absorbed its 64 init bytes and then the
\* nb_loops * nb_instrs instruction chunks in execution order, mem_digest its
\* 64 init bytes and then the fetched ROM windows in fetch order.
C30_LiveDigests ==
    [][\A v \in VMs :
         (vms[v].pc \in {"shuffle", "step", "post", "finalize"}
             /\ vms'[v] # vms[v] /\ vms'[v].pc # "panicked")
           => DigestStep(vms[v], vms'[v])]_vars

\* A finished hash call of two loops with Special reads and fetches: the
\* program digest holds 64 bytes and 2 * 256 chunks, and nothing of the two
\* post-mixes.
C30_Witness ==
    /\ vms["vm1"].pc = "done"
    /\ Len(vms["vm1"].vm.mixes) = MIN_NB_LOOPS
    /\ vms["vm1"].vm.prog_digest.n =
          DIGEST_INIT_SIZE + INSTR_SIZE * MIN_NB_LOOPS * MIN_NB_INSTRS
    /\ Len(vms["vm1"].vm.fetches) > 0
    /\ vms["vm1"].vm.mem_digest.n =
          DIGEST_INIT_SIZE + 64 * Len(vms["vm1"].vm.fetches)

----------------------------------------------------------------------------
(* Two hash calls with the same arguments on two threads sharing the ROM    *)

MaxSwitches == 1
SwitchEvery == 4

\* The hash call h has not started or has returned.
Quiet(h) == h.pc \in {"none", "done", "panicked"}

\* The thread of the hash call h is switched out: in its first loop, after
\* SwitchEvery steps or a multiple of them.
Preempted(h) ==
    /\ h.pc = "step" /\ h.loops_done = 0
    /\ \E k \in 1..MaxSwitches : h.steps_done = SwitchEvery * k

\* vm1 runs while vm2 is quiet, vm2 runs a whole call while vm1 is switched
\* out.
Scheduled(v) ==
    IF v = "vm1" THEN Quiet(vms["vm2"]) ELSE Preempted(vms["vm1"])

NextTwo ==
    \E v \in VMs :
       /\ Scheduled(v)
       /\ \/ HashStart(v, VmSalt, VmRom, MIN_NB_LOOPS, MIN_NB_INSTRS)
          \/ VmShuffle(v)
          \/ VmStep(v)
          \/ VmPost(v)
          \/ VmFinalize(v)

SpecTwo == InitVM /\ [][NextTwo]_vars

\* The two hash calls have the same arguments.
SameArguments(h, g) ==
    /\ h.salt = g.salt /\ h.rom = g.rom
    /\ h.nb_loops = g.nb_loops /\ h.nb_instrs = g.nb_instrs

\* The two hash calls are at the same point of their evaluation.
SamePosition(h, g) ==
    /\ VmRunning(h) /\ VmRunning(g)
    /\ h.pc = g.pc /\ h.loops_done = g.loops_done
    /\ h.pc \in {"step", "post"} => h.steps_done = g.steps_done

----------------------------------------------------------------------------
(* stats_handler: the reset and the hash rate *)

\* The stats call c is between taking the write lock on
\* LAST_RESET_TIME and dropping it.
InStatsLock(c) == c.kind = "stats" /\ c.pc \in {"load_total", "rate"}

\* C31: a stats call zeroes total_hashes and records the time of the reset
\* exactly when no reset time is recorded or at least 3600 seconds have passed
\* since the recorded one; no two stats calls are between the check and the
\* release of the lock at a time; hash_rate is total_hashes divided by the
\* whole seconds since the recorded reset, and 0 when that is 0 seconds.
C31_StatsReset ==
    [][\A t \in Threads :
         /\ (calls[t].pc = "idle" /\ calls'[t].kind = "stats") =>
               /\ calls'[t].locals.reset <=>
                     (~LAST_RESET_TIME.some
                        \/ now - LAST_RESET_TIME.val >= RESET_SECONDS)
               /\ calls'[t].locals.reset =>
                     TOTAL_HASHES' = 0 /\ LAST_RESET_TIME' = Some(now)
               /\ ~calls'[t].locals.reset =>
                     UNCHANGED <<TOTAL_HASHES, LAST_RESET_TIME>>
         /\ InStatsLock(calls'[t]) =>
               /\ LAST_RESET_TIME'.some
               /\ \A u \in Threads \ {t} : ~InStatsLock(calls'[u])
         /\ (calls[t].kind = "stats" /\ calls[t].pc = "rate"
               /\ calls'[t].pc = "done") =>
               /\ calls'[t].resp.val.total_hashes = calls[t].locals.total_hashes
               /\ calls'[t].resp.val.hash_rate =
                     IF now - LAST_RESET_TIME.val = 0 THEN 0
                     ELSE calls[t].locals.total_hashes
                            \div (now - LAST_RESET_TIME.val)]_vars

\* A stats call that reset the counter, read 10,000 hashes of a batch
\* completed right after the reset and answers within the same second: the
\* rate is 0.
C31_Witness ==
    \E t \in Threads :
       /\ calls[t].kind = "stats" /\ calls[t].pc = "done"
       /\ calls[t].locals.reset
       /\ calls[t].resp.val.total_hashes = BATCH_SIZE
       /\ calls[t].resp.val.hash_rate = 0
       /\ LAST_RESET_TIME = Some(now)

----------------------------------------------------------------------------
(* matches_difficulty: the two checks against each other *)

\* let shadow_harvester_pass = (hash_prefix_be | mask) == mask
ShadowHarvesterPass(hash, difficulty) ==
    U32Or(u32_from_str_radix(SubSeq(hash, 1, 8)).val,
          u32_from_str_radix(difficulty).val)
      = u32_from_str_radix(difficulty).val

\* let heist_engine_pass = hash_structure_good(&hash_bytes, required_zero_bits)
HeistEnginePass(hash, difficulty) ==
    hash_structure_good(hex_decode(hash).val,
                        difficulty_to_zero_bits(difficulty).val)

C32_WitnessConverse ==
    /\ validated /\ IsDigestHex(hash_hex) /\ IsMaskHex(difficulty_hex)
    /\ HeistEnginePass(hash_hex, difficulty_hex)
    /\ ~ShadowHarvesterPass(hash_hex, difficulty_hex)
    /\ result = Ok(FALSE)

----------------------------------------------------------------------------
(* MINING_ACTIVE *)

\* The start_mining call c has stored true to MINING_ACTIVE.
PastActive(c) ==
    /\ c.kind = "start_mining"
    /\ \/ c.pc \in {"loop", "found"}
       \/ c.pc = "done" /\ c.resp.val.status # 503

\* C33: mining_active is false from process start until the first
\* start_mining call that finds an initialized ROM stores true, and true in
\* every later state: nothing sets it back to false, and stats reports the
\* value also after every start_mining call has returned.
C33_MiningActiveLatch ==
    [][/\ MINING_ACTIVE => MINING_ACTIVE'
       /\ (~MINING_ACTIVE /\ MINING_ACTIVE') =>
             \E t \in Threads :
                /\ calls[t].kind = "start_mining" /\ calls[t].pc = "active"
                /\ calls[t].rom.some
                /\ calls'[t] # calls[t]
       /\ ~MINING_ACTIVE => \A t \in Threads : ~PastActive(calls[t])
       /\ \A t \in Threads :
             (calls[t].kind = "stats" /\ calls[t].pc = "rate"
                /\ calls'[t].pc = "done") =>
                calls'[t].resp.val.mining_active = MINING_ACTIVE]_vars

\* A stats call answers mining_active = true when the only start_mining call
\* has returned its solution and no other is running.
C33_Witness ==
    /\ MINING_ACTIVE /\ SOLUTIONS_FOUND = 1
    /\ \A t \in Threads : calls[t].kind = "start_mining" => calls[t].pc = "done"
    /\ \E t \in Threads :
          /\ calls[t].kind = "stats" /\ calls[t].pc = "done"
          /\ calls[t].resp.val.mining_active
          /\ calls[t].resp.val.solutions_found = 1

----------------------------------------------------------------------------
(* GET /health *)

\* let rom_initialized = rom_lock.is_some(), and the response.
Health(t) ==
    /\ Accept(t)
    /\ calls' = [calls EXCEPT ![t] =
          Finished(NewCall("health", <<>>),
                   [status |-> 200, rom_initialized |-> ROM.some])]
    /\ UNCHANGED <<ROM, TOTAL_HASHES, SOLUTIONS_FOUND, MINING_ACTIVE,
                   STATS_START_TIME, LAST_RESET_TIME, CPU_MODE, poolVars,
                   oracle, now, overflow_checks, pureVars>>

----------------------------------------------------------------------------
(* The mining counters under requests of every kind *)

NextCounters ==
    \E t \in Threads :
        \/ \E req \in InitRequests : InitBuild(t, req)
        \/ InitStore(t)
        \/ HashEntry(t, [preimage |-> P1])
        \/ HashEval(t)
        \/ HashBatchEntry(t, [preimages |-> <<P1, P2>>])
        \/ \E i \in 1..2 : HashBatchEval(t, i)
        \/ MineEntry(t, MineRequest)
        \/ \E i \in 1..2 : MineEval(t, i)
        \/ StartMiningEntry(t, StartMiningRequest)
        \/ StartMiningStats(t)
        \/ StartMiningActive(t)
        \/ StartMiningBatch(t)
        \/ StartMiningReturn(t)
        \/ Health(t)
        \/ SetCpuModeStore(t, [mode |-> "max"])
        \/ SetCpuModeBuild(t)
        \/ StatsReset(t)
        \/ StatsLoadTotal(t)
        \/ StatsRespond(t)
        \/ Recycle(t)

SpecCounters == Init /\ [][NextCounters]_vars

\* The handlers that do not touch the mining counters.
CounterFree == {"init", "hash", "hash_batch", "mine", "health", "set_cpu_mode"}

\* The step is one of the call of thread t.
StepOf(t) == calls'[t] # calls[t]

\* C34: start_mining adds exactly BATCH_SIZE = 10,000 to total_hashes for each
\* batch it completes, with or without a match, and 1 to solutions_found when
\* it returns; init, hash, hash_batch, mine, health and set_cpu_mode leave
\* both counters as they are; total_hashes is a multiple of 10,000 and a
\* solution returned by mine is not counted.
C34_CountersFrame ==
    [][/\ \A t \in Threads :
            /\ (StepOf(t) /\ calls'[t].kind \in CounterFree) =>
                  UNCHANGED <<TOTAL_HASHES, SOLUTIONS_FOUND>>
            /\ (StepOf(t) /\ calls[t].kind = "start_mining"
                  /\ calls'[t].kind = "start_mining"
                  /\ calls'[t].batches = calls[t].batches + 1) =>
                  /\ TOTAL_HASHES' = TOTAL_HASHES + BATCH_SIZE
                  /\ UNCHANGED SOLUTIONS_FOUND
            /\ (StepOf(t) /\ calls[t].kind = "start_mining"
                  /\ calls[t].pc = "found") =>
                  /\ calls'[t].pc = "done"
                  /\ SOLUTIONS_FOUND' = SOLUTIONS_FOUND + 1
                  /\ UNCHANGED TOTAL_HASHES
       /\ SOLUTIONS_FOUND' # SOLUTIONS_FOUND =>
            \E t \in Threads :
               StepOf(t) /\ calls[t].kind = "start_mining" /\ calls[t].pc = "found"
       /\ TOTAL_HASHES' # TOTAL_HASHES =>
            \E t \in Threads :
               /\ StepOf(t)
               /\ \/ calls[t].kind = "start_mining" /\ calls[t].pc = "loop"
                  \/ calls'[t].kind = "stats" /\ TOTAL_HASHES' = 0
       /\ TOTAL_HASHES' % BATCH_SIZE = 0
       /\ BATCH_SIZE = 10000]_vars

\* A mine call has returned a solution and a start_mining call one found in
\* its first batch: one batch and one solution are counted.
C34_Witness ==
    /\ TOTAL_HASHES = BATCH_SIZE /\ SOLUTIONS_FOUND = 1
    /\ \E t, u \in Threads :
          /\ calls[t].kind = "mine" /\ calls[t].pc = "done"
          /\ calls[t].resp.val.status = 200
          /\ calls[t].resp.val.solutions # <<>>
          /\ calls[u].kind = "start_mining" /\ calls[u].pc = "done"
          /\ calls[u].batches = 1
          /\ calls[u].resp.val.status = 200

----------------------------------------------------------------------------
(* The hash evaluations of the handlers as calls of hashengine::hash *)

\* str::as_bytes of the texts the service hashes.
as_bytes(text) == Strict([i \in 1..Len(text) |-> ByteOfChar(text[i])])

\* Requests to /init whose ashConfig gives nbLoops and nbInstrs below what
\* hash asserts, and the usual ones.
ServiceInitRequests ==
    {[no_pre_mine |-> KeyA,
      ash_config |-> [AshConfig EXCEPT !.nb_loops = l, !.nb_instrs = i]] :
        l \in {MIN_NB_LOOPS - 1, NB_LOOPS}, i \in {MIN_NB_INSTRS - 1, NB_INSTRS}}

\* The preimages the call c is about to hash: that of /hash, the pending
\* ones of /hash-batch and /mine, the first of the next batch of
\* /start-mining.
ServiceSalts(c) ==
    CASE c.kind = "hash" /\ c.pc = "hash" -> {c.req.preimage}
      [] c.kind = "hash_batch" /\ c.pc = "map" ->
            {c.req.preimages[i] : i \in Pending(c, Len(c.req.preimages))}
      [] c.kind = "mine" /\ c.pc = "map" ->
            {build_preimage(nonce_hex_of(U64Add(c.nonce_counter, U64(i - 1)).val),
                            c.req.address, c.req.challenge) :
               i \in Pending(c, c.req.batch_size)}
      [] c.kind = "start_mining" /\ c.pc = "loop" ->
            {build_preimage(nonce_hex_of(c.nonce_counter),
                            c.req.address, c.req.challenge)}
      [] OTHER -> {}

\* sh_hash(salt, &rom, 256, 8): the two numbers in the wrong order.
ServiceHash_swapped(t, v) ==
    \E salt \in ServiceSalts(calls[t]) :
       HashStart(v, as_bytes(salt), HeldRom(t), NB_INSTRS, NB_LOOPS)

\* sh_hash(salt, &rom, 8, 256) of a handler, entered as a hash call.
ServiceHash(t, v) ==
    \E salt \in ServiceSalts(calls[t]) :
       HashStart(v, as_bytes(salt), HeldRom(t), NB_LOOPS, NB_INSTRS)

NextService ==
    \E t \in Threads :
        \/ \E req \in ServiceInitRequests : InitBuild(t, req)
        \/ InitStore(t)
        \/ HashEntry(t, [preimage |-> P1])
        \/ HashEval(t)
        \/ HashBatchEntry(t, [preimages |-> <<P1, P2>>])
        \/ \E i \in 1..2 : HashBatchEval(t, i)
        \/ MineEntry(t, MineRequest)
        \/ \E i \in 1..2 : MineEval(t, i)
        \/ StartMiningEntry(t, StartMiningRequest)
        \/ StartMiningStats(t)
        \/ StartMiningActive(t)
        \/ StartMiningBatch(t)
        \/ StartMiningReturn(t)
        \/ ServiceHash(t, "vm1")
        \/ Recycle(t)

SpecService == Init /\ [][NextService]_vars

\* C35: every hash the service computes is hash(salt, rom, 8, 256), whatever
\* nbLoops and nbInstrs the ashConfig of an init gave, so that the assertions
\* nb_loops >= 2 and nb_instrs >= 256 of hash never fail.
C35_FixedHashParameters ==
    \A v \in VMs :
       vms[v].pc # "none" =>
          /\ vms[v].nb_loops = 8 /\ vms[v].nb_instrs = 256
          /\ vms[v].pc # "panicked"
          /\ vms[v].pc = "shuffle"

\* A start_mining call hashes on the ROM of an init whose ashConfig said
\* nbLoops = 1 and nbInstrs = 255.
C35_Witness ==
    \E t, u \in Threads :
       /\ calls[t].kind = "init" /\ calls[t].pc = "done"
       /\ calls[t].req.ash_config.nb_loops = 1
       /\ calls[t].req.ash_config.nb_instrs = 255
       /\ ROM = calls[t].rom
       /\ calls[u].kind = "start_mining" /\ calls[u].pc = "loop"
       /\ vms["vm1"].pc = "shuffle"
       /\ vms["vm1"].rom = ROM.val
       /\ vms["vm1"].salt =
             as_bytes(build_preimage(nonce_hex_of(calls[u].nonce_counter),
                                     calls[u].req.address,
                                     calls[u].req.challenge))

----------------------------------------------------------------------------
(* hashengine.rs: the spin worker threads *)

CHUNKS_SIZE == 255
MaxProbes == 3
MaxProgress == 2

\* hashengine.rs's own build_preimage: format!("{:016x}", nonce), then the
\* fields in the order of preimage.rs.
hashengine_build_preimage(nonce, address, challenge_id, difficulty, no_pre_mine, latest_submission, no_pre_mine_hour) ==
    nonce_hex_of(nonce) \o address \o challenge_id \o difficulty
        \o no_pre_mine \o latest_submission \o no_pre_mine_hour

\* hashengine.rs's own difficulty_to_zero_bits: the mask is decoded with
\* unwrap(), so it is applied to hex text only.
hashengine_difficulty_to_zero_bits(difficulty) ==
    CountZeroBits(hex_decode(difficulty).val, 1)

\* A mask whose one bits are not contiguous: 12 leading zero bits, and four
\* more zero bits further down.
MaskGap == <<"0", "0", "0", "f", "0", "f", "f", "f">>
SpinMasks == {Mask12, MaskGap}

\* ChallengeParams, with required_zero_bits derived from difficulty_mask.
ChallengeParams(difficulty_mask) ==
    [rom_key |-> KeyA, difficulty_mask |-> difficulty_mask,
     address |-> Address, challenge_id |-> <<"*", "1">>,
     latest_submission |-> <<"s">>, no_pre_mine_hour |-> <<"h">>,
     required_zero_bits |-> hashengine_difficulty_to_zero_bits(difficulty_mask),
     rom |-> RomOf(KeyA)]

\* The preimage a worker builds for a nonce, and its digest.
SpinPreimage(params, nonce) ==
    hashengine_build_preimage(nonce, params.address, params.challenge_id,
                              params.difficulty_mask, params.rom_key,
                              params.latest_submission,
                              params.no_pre_mine_hour)
SpinDigest(params, nonce) ==
    sh_hash(SpinPreimage(params, nonce), params.rom, NB_LOOPS, NB_INSTRS)

\* 2^63 as a u64: adding it twice wraps around to the start.
TopBit == Strict([i \in 1..8 |-> IF i = 8 THEN 128 ELSE 0])
StepSizes == {U64(0), U64(1), TopBit}
CyclicStepSizes == {U64(0), TopBit}
StartNonces == [s1 : {U64(0), U64(CHUNKS_SIZE)}, s2 : {U64(1)}]

\* The nonces a worker probes within MaxProbes additions of its step.
RECURSIVE Probes(_, _, _)
Probes(nonce, step_size, k) ==
    IF k = 0 THEN {nonce}
    ELSE {nonce} \cup UNION {Probes(next, step_size, k - 1) :
                                next \in {U64Add(nonce, step_size).val}}

\* The digests of a run: the listed nonces have 12 leading zero bits and a
\* one bit where MaskGap has a zero, every other nonce has DefaultDigest.
SpinHot == {{}, {U64(1)}, {U64(CHUNKS_SIZE + 1)}}
SpinOracle(params, hot) ==
    OracleOf({[pt |-> <<params.rom, SpinPreimage(params, n)>>,
               digest |-> LowDigest(17)] : n \in hot})

\* thread::spawn(spin(params, sender, stop_signal, start_nonce, step_size))
Spawned(params, start_nonce, step_size) ==
    [pc |-> "loop", params |-> params, start_nonce |-> start_nonce,
     step_size |-> step_size, nonce_value |-> start_nonce]

InitSpinOver(step_sizes) ==
    /\ GlobalsInit
    /\ MainInit(MaxCores, DEFAULT_CPU_PERCENTAGE)
    /\ PureIdle
    /\ overflow_checks = FALSE
    /\ hash_hex = <<>> /\ difficulty_hex = <<>>
    /\ result = <<>> /\ validated = FALSE
    /\ vms = [v \in VMs |-> NoVm] /\ usize_bits = 64
    /\ stop_signal = FALSE
    /\ channel = OpenChannel
    /\ \E mask \in SpinMasks, step_size \in step_sizes,
          start \in StartNonces, hot \in SpinHot :
          \E params \in {ChallengeParams(mask)} :
            /\ spinners = [w \in SpinWorkers |->
                              Spawned(params, start[w], step_size)]
            /\ oracle = SpinOracle(params, hot)

\* Sender::send: Err when the receiver has been dropped, else the message
\* is queued.  Progress messages are counted per worker, up to MaxProgress.
SendFound(w, nonce) ==
    IF channel.receiver
    THEN [channel EXCEPT !.found = Append(@, [from |-> w, nonce |-> nonce])]
    ELSE channel
SendProgress(w) ==
    IF channel.receiver
    THEN [channel EXCEPT !.progress[w] =
                            IF @ < MaxProgress THEN @ + 1 ELSE MaxProgress]
    ELSE channel

\* while !stop_signal.load(Ordering::Relaxed)
SpinLoad(w) ==
    /\ spinners[w].pc = "loop"
    /\ spinners' = [spinners EXCEPT
                      ![w].pc = IF stop_signal THEN "returned" ELSE "hash"]
    /\ UNCHANGED <<serverVars, hash_hex, difficulty_hex, result, validated,
                   applied, args, out, vms, usize_bits, stop_signal, channel>>

\* The preimage, its hash, and the test of the digest: a nonce that passes
\* is sent as Found and the worker returns whether or not the send failed.
SpinHash(w) ==
    /\ spinners[w].pc = "hash"
    /\ \E h \in {SpinDigest(spinners[w].params, spinners[w].nonce_value)} :
         IF hash_structure_good(h, spinners[w].params.required_zero_bits)
         THEN /\ channel' = SendFound(w, spinners[w].nonce_value)
              /\ spinners' = [spinners EXCEPT ![w].pc = "returned"]
         ELSE /\ channel' = channel
              /\ spinners' = [spinners EXCEPT ![w].pc = "progress"]
    /\ UNCHANGED <<serverVars, hash_hex, difficulty_hex, result, validated,
                   applied, args, out, vms, usize_bits, stop_signal>>

\* The Progress message of a nonce whose low byte is 0, then the next nonce.
\* The worker returns when the send fails.
SpinProgress(w) ==
    /\ spinners[w].pc = "progress"
    /\ \E sends \in {U64And(spinners[w].nonce_value, U64(CHUNKS_SIZE))
                          = U64(0)},
          next \in {U64Add(spinners[w].nonce_value,
                           spinners[w].step_size).val} :
         IF sends /\ ~channel.receiver
         THEN /\ spinners' = [spinners EXCEPT ![w].pc = "returned"]
              /\ channel' = channel
         ELSE /\ next \in Probes(spinners[w].start_nonce,
                                 spinners[w].step_size, MaxProbes)
              /\ channel' = IF sends THEN SendProgress(w) ELSE channel
              /\ spinners' = [spinners EXCEPT ![w].pc = "loop",
                                              ![w].nonce_value = next]
    /\ UNCHANGED <<serverVars, hash_hex, difficulty_hex, result, validated,
                   applied, args, out, vms, usize_bits, stop_signal>>

\* The owner of the workers sets the stop signal, or drops the receiver.
StopSignalStore ==
    /\ ~stop_signal
    /\ stop_signal' = TRUE
    /\ UNCHANGED <<serverVars, hash_hex, difficulty_hex, result, validated,
                   applied, args, out, vms, usize_bits, spinners, channel>>
ReceiverDrop ==
    /\ channel.receiver
    /\ channel' = [channel EXCEPT !.receiver = FALSE]
    /\ UNCHANGED <<serverVars, hash_hex, difficulty_hex, result, validated,
                   applied, args, out, vms, usize_bits, spinners, stop_signal>>

SpinStep(w) == SpinLoad(w) \/ SpinHash(w) \/ SpinProgress(w)
NextSpin ==
    \/ \E w \in SpinWorkers : SpinLoad(w)
    \/ \E w \in SpinWorkers : SpinHash(w)
    \/ \E w \in SpinWorkers : SpinProgress(w)
    \/ StopSignalStore
    \/ ReceiverDrop

InitSpin == InitSpinOver(StepSizes)
SpecSpin == InitSpin /\ [][NextSpin]_vars

\* C36: every nonce that a spin worker has sent as Found has a digest that
\* meets the dual difficulty predicate (the mask-union check and the
\* zero-bits check) for the difficulty mask of the worker's challenge.
C36_FoundMeetsDualPredicate ==
    \A i \in 1..Len(channel.found) :
        LET params == spinners[channel.found[i].from].params
            h == SpinDigest(params, channel.found[i].nonce)
        IN  matches_difficulty(hex_encode(h), params.difficulty_mask)
                = Ok(TRUE)

----------------------------------------------------------------------------
(* spin: termination *)

\* Each worker is a thread of its own that the scheduler keeps running; its
\* owner is under no obligation to set the stop signal or drop the receiver.
\* The step sizes are those whose nonces come back to the start, so that a
\* worker that never returns is a worker that runs forever.
InitSpinCyclic == InitSpinOver(CyclicStepSizes)
SpecSpinFair ==
    /\ InitSpinCyclic
    /\ [][NextSpin]_vars
    /\ \A w \in SpinWorkers : WF_vars(SpinStep(w))

Cancelled == stop_signal \/ ~channel.receiver
Returned(w) == spinners[w].pc = "returned"

\* C37: for every start_nonce and step_size, once the stop signal has been
\* set or the receiving end of the channel has been dropped, every spin
\* worker eventually returns.
C37_SpinReturns ==
    \A w \in SpinWorkers : Cancelled ~> Returned(w)

====
